---- MODULE Spec2Model ----
(***************************************************************************)
(* The gallery upload lifecycle of the project gallery manager             *)
(* (ProjectGalleryManager, src/replit.md lines 83-1152): the pending       *)
(* image list, its localStorage mirror, the upload sessions, the save      *)
(* (reconciliation) procedure and the cleanup requests, as one state       *)
(* machine.  One owner (projectId) is modelled.                            *)
(*                                                                         *)
(* React is modelled by what it does to this component: a state update is  *)
(* followed by a render whose effects run within the same step; an         *)
(* asynchronous handler keeps the values of the render it was started in   *)
(* (its closure) until it ends, and every await is a separate step.        *)
(***************************************************************************)
EXTENDS Integers, Sequences, FiniteSets, TLC

(* ------------------------------ bounds --------------------------------- *)
\* upload batches completed in one behaviour
MaxUploads == 2
\* files in one upload batch
MaxBatch == 2
\* times the component is mounted
MaxMounts == 2
\* invocations of saveGalleryImages
MaxSaves == 2
\* edits of pending entries (caption, order, drag reorder)
MaxEdits == 1
\* deletions of pending entries
MaxDeletes == 1
\* handler invocations (uploads, saves, edits and deletes together) in one run
MaxOps == 3
\* sizes of the persisted gallery the owner starts with
InitSizes == {0, 8}

(* -------------------------- program constants -------------------------- *)
MAX_GALLERY_IMAGES == 10

\* the localStorage key `pendingImages_project_${projectId}` of the owner
StorageKey == "pendingImages_project_1"

\* the two entry points of saveGalleryImages
Slots == {"button", "handle"}

(* ------------------------------ helpers -------------------------------- *)
Max2(a, b) == IF a >= b THEN a ELSE b

Min2(a, b) == IF a <= b THEN a ELSE b

RECURSIVE SeqMax(_)
\* Math.max(...list) of a non-empty list of numbers
SeqMax(list) ==
  IF Len(list) = 1 THEN list[1] ELSE Max2(list[1], SeqMax(Tail(list)))

Range(list) == {list[i] : i \in 1..Len(list)}

RECURSIVE SetToSeq(_)
\* Array.from(set) of a set of session ids: insertion order is id order
SetToSeq(S) ==
  IF S = {} THEN <<>>
  ELSE LET m == CHOOSE x \in S : \A y \in S : x <= y
       IN <<m>> \o SetToSeq(S \ {m})

(* -------------------------------- urls --------------------------------- *)
\* A url is a sequence of tokens: path tokens, "?" and " ".
\* The i-th file of upload batch k.
FileUrl(k, i) == <<ToString(100 * k + i)>>

\* The url of the j-th image the gallery starts with.
GalleryUrl(j) == <<ToString(j)>>

\* the same resource with a query string appended
WithQuery(url) == url \o <<"?", "v">>

\* file.ufsUrl || ''
BlankUrl == <<>>

\* url.split('?')[0]
BeforeQuery(url) ==
  LET qs == {i \in 1..Len(url) : url[i] = "?"}
  IN IF qs = {} THEN url
     ELSE SubSeq(url, 1, (CHOOSE i \in qs : \A j \in qs : i <= j) - 1)

\* str.trim()
Trim(str) ==
  LET ns == {i \in 1..Len(str) : str[i] # " "}
  IN IF ns = {} THEN <<>>
     ELSE SubSeq(str, CHOOSE i \in ns : \A j \in ns : i <= j,
                      CHOOSE i \in ns : \A j \in ns : i >= j)

\* url.split('?')[0].trim()
NormalizeUrl(url) == Trim(BeforeQuery(url))

(* --------------------------- localStorage ------------------------------ *)
\* localStorage is a function from the keys present to their string values.
setItem(ls, key, value) ==
  [k \in DOMAIN ls \cup {key} |-> IF k = key THEN value ELSE ls[k]]

removeItem(ls, key) == [k \in DOMAIN ls \ {key} |-> ls[k]]

\* getItem(key) is truthy: the key is present (a stored value is never "")
hasItem(ls, key) == key \in DOMAIN ls

\* JSON.stringify(pendingImages): the text as a sequence of key/value tokens
JSONstringify(list) ==
  [k \in 1..(3 * Len(list)) |->
     LET e == list[((k - 1) \div 3) + 1]
         r == (k - 1) % 3
     IN CASE r = 0 -> <<"url", e.url>>
          [] r = 1 -> <<"caption", e.caption>>
          [] r = 2 -> <<"displayOrder", e.displayOrder>>]

\* whether JSON.parse(text) returns rather than throws
IsJSON(text) ==
  /\ Len(text) % 3 = 0
  /\ \A k \in 1..Len(text) :
       text[k][1] = CASE (k - 1) % 3 = 0 -> "url"
                      [] (k - 1) % 3 = 1 -> "caption"
                      [] (k - 1) % 3 = 2 -> "displayOrder"

\* JSON.parse(text) as PendingImage[]
JSONparse(text) ==
  [i \in 1..(Len(text) \div 3) |->
     [url |-> text[3 * i - 2][2],
      caption |-> text[3 * i - 1][2],
      displayOrder |-> text[3 * i][2]]]

\* a stored value that JSON.parse rejects
CorruptText == << <<"{", 0>> >>

(* ------------------------------ variables ------------------------------ *)
VARIABLES
  mounted,              \* the component is mounted
  inst,                 \* which mount this is (1, 2, ...)
  isNewProject,         \* prop isNewProject
  server,               \* the owner's persisted gallery at the remote API
  projectGallery,       \* useProject's cached copy of it (undefined as <<>>)
  pendingImages,        \* useState pendingImages
  localStorage,         \* the local durable key-value mirror
  uploadSessions,       \* useProject's tracked upload sessions
  committed,            \* sessions the storage provider has committed
  uploads,              \* upload completions waiting for their commit call
  save,                 \* the running saveGalleryImages calls, per entry point
  isUploading,          \* useState isUploading
  showMaxImagesWarning, \* useState showMaxImagesWarning
  effClosure,           \* values the unmount-cleanup effect was set up with
  cleanups,             \* cleanup requests issued by the latest step (and
                        \* not answered yet)
  commits,              \* commit requests issued by the latest step
  toast,                \* the notification raised by the latest step
  ev,                   \* the handler step taken last
  nUploads, nSaves, nEdits, nDeletes,
  orderEdited,          \* a pending displayOrder was edited by hand
  orderCalls,           \* updateProjectGalleryImage requests in flight
  modifiedOrders,       \* useState modifiedOrders
  move,                 \* the reordering of persisted entries made last
  featureStars,         \* ids whose feature star is styled gold in the DOM
  featureCalls,         \* setProjectFeatureImage requests in flight
  modifiedCaptions,     \* useState modifiedCaptions
  captionCalls,         \* updateProjectGalleryImage caption requests in flight
  updateFailures,       \* the caption and order updates that were refused
  blog,                 \* the BlogGalleryManager instance of a blog post
  team,                 \* the useTeamMembers hook of a page
  row                   \* what the handlers last did, as far as saves go:
                        \* a slot name while that slot's call is the only
                        \* handler to have run since it started; "ran" /
                        \* "failed" once such a call has returned, with all
                        \* its fetch and persist requests answered / one of
                        \* them refused; "none" otherwise

vars == <<mounted, inst, isNewProject, server, projectGallery, pendingImages,
          localStorage, uploadSessions, committed, uploads, save, isUploading,
          showMaxImagesWarning, effClosure, cleanups, commits, toast, ev,
          nUploads, nSaves, nEdits, nDeletes, orderEdited, orderCalls,
          modifiedOrders, move, featureStars, featureCalls, modifiedCaptions,
          captionCalls, updateFailures, blog, team, row>>

\* the state of the other components
otherComponents == <<blog, team>>

\* the saved-image state beside the order manager's
savedVars == <<featureStars, featureCalls, modifiedCaptions, captionCalls>>

(* ------------------------------ records -------------------------------- *)
\* The persisted gallery an existing owner starts with; displayOrder is
\* nullable: <<>> is null, <<n>> the number n.
InitGallery(n) ==
  [j \in 1..n |-> [id |-> j, imageUrl |-> GalleryUrl(j), caption |-> "g",
                   displayOrder |-> <<j>>]]

\* no reordering of persisted entries yet
NoMove ==
  [n |-> 0, kind |-> "", id |-> 0, currentOrder |-> <<>>, target |-> 0,
   before |-> <<>>, shown |-> <<>>, items |-> <<>>, fresh |-> FALSE,
   alone |-> FALSE, issued |-> {}, answered |-> 0, refused |-> 0]

\* BlogGalleryManager.tsx lines 29-35, before the component is mounted
NoBlog ==
  [mounted |-> FALSE, isAddDialogOpen |-> FALSE, uploadSession |-> "",
   uploadedFiles |-> <<>>, isCommitted |-> FALSE, galleryImages |-> <<>>,
   server |-> <<>>, runs |-> {}, effClosure |-> <<>>, cleanups |-> {},
   commits |-> {}, n |-> 0, last |-> [name |-> "none"]]

\* useTeamMembers.ts: no page uses the hook yet
NoTeam ==
  [used |-> FALSE, isAdmin |-> FALSE, requests |-> {},
   toast |-> [title |-> "", variant |-> ""], n |-> 0,
   last |-> [name |-> "none"]]

NoToast == [title |-> "", variant |-> "", nums |-> <<>>]

IdleSave ==
  [pc |-> "idle", inst |-> 0, M |-> <<>>, sessions |-> <<>>, loaded |-> <<>>,
   existing |-> <<>>, newPending |-> <<>>, idx |-> 0, sess |-> <<>>,
   inRow |-> "none", posted |-> <<>>, called |-> <<>>]

\* the values a render hands to the handlers and effects created in it
Closure ==
  [sessions |-> uploadSessions, gallery |-> projectGallery,
   pending |-> pendingImages]

(* ------------------- Pending Item Store: adding ------------------------ *)
\* lines 176-177
currentImageCount(cl) == Len(cl.gallery) + Len(cl.pending)

canAddMoreImages(cl) == currentImageCount(cl) < MAX_GALLERY_IMAGES

\* lines 303-312
getNextOrderValue(cl) ==
  IF Len(cl.gallery) > 0
  THEN SeqMax([i \in 1..Len(cl.gallery) |->
                 IF cl.gallery[i].displayOrder # <<>>
                 THEN cl.gallery[i].displayOrder[1] ELSE 0]) + 1
  ELSE IF Len(cl.pending) > 0
  THEN SeqMax([i \in 1..Len(cl.pending) |-> cl.pending[i].displayOrder]) + 1
  ELSE 1

\* lines 337-341 and 372-376: urls.map((url, idx) => ({...}))
newPendingFrom(urls, nextOrder) ==
  [i \in 1..Len(urls) |->
     [url |-> urls[i], caption |-> "Project image " \o ToString(i),
      displayOrder |-> nextOrder + (i - 1)]]

\* line 329
allowedToAdd(cl) == Max2(0, MAX_GALLERY_IMAGES - currentImageCount(cl))

\* lines 354-358, were the description to count the files left out of the
\* remaining quota
limitedToastRejected(allowed) ==
  [title |-> "Maximum images reached", variant |-> "default",
   nums |-> <<MAX_GALLERY_IMAGES - allowed, MAX_GALLERY_IMAGES>>]

\* lines 354-358
limitedToast(allowed) ==
  [title |-> "Maximum images reached", variant |-> "default",
   nums |-> <<allowed, MAX_GALLERY_IMAGES>>]

\* lines 363-367
maxReachedToast ==
  [title |-> "Maximum images reached", variant |-> "destructive",
   nums |-> <<MAX_GALLERY_IMAGES>>]

\* lines 389-392
addedToast(n) == [title |-> "Images added", variant |-> "", nums |-> <<n>>]

\* lines 315-394: what handleFileUpload(urls), created in a render with the
\* values cl, appends to the pending list and what it tells the user
handleFileUpload(cl, urls) ==
  IF currentImageCount(cl) + Len(urls) > MAX_GALLERY_IMAGES
  THEN IF allowedToAdd(cl) > 0
       THEN [added |-> newPendingFrom(SubSeq(urls, 1, allowedToAdd(cl)),
                                      getNextOrderValue(cl)),
             sets |-> TRUE, warn |-> FALSE,
             toast |-> limitedToast(allowedToAdd(cl))]
       ELSE [added |-> <<>>, sets |-> FALSE, warn |-> TRUE,
             toast |-> maxReachedToast]
  ELSE [added |-> newPendingFrom(urls, getNextOrderValue(cl)),
        sets |-> TRUE, warn |-> FALSE, toast |-> addedToast(Len(urls))]

(* ------------------------------ effects -------------------------------- *)
\* lines 229-235 without the else branch
savePendingEffectNoRemove(ls, pending) ==
  IF Len(pending) > 0
  THEN setItem(ls, StorageKey, JSONstringify(pending))
  ELSE ls

\* lines 229-235: the effect on [pendingImages, projectId]
savePendingEffect(ls, pending) ==
  IF Len(pending) > 0
  THEN setItem(ls, StorageKey, JSONstringify(pending))
  ELSE removeItem(ls, StorageKey)

\* lines 238-253: the effect on [projectId]
loadPendingEffect(ls) ==
  IF hasItem(ls, StorageKey)
  THEN IF IsJSON(ls[StorageKey])
       THEN [set |-> TRUE, pending |-> JSONparse(ls[StorageKey]), ls |-> ls]
       ELSE [set |-> FALSE, pending |-> <<>>,
             ls |-> removeItem(ls, StorageKey)]
  ELSE [set |-> FALSE, pending |-> <<>>, ls |-> ls]

\* The effects of the first render, in the order the component declares
\* them (lines 229, 238), and those of the render setPendingImages causes.
mountEffects(ls) ==
  LET saved == savePendingEffect(ls, <<>>)
      loaded == loadPendingEffect(saved)
  IN IF loaded.set
     THEN [pending |-> loaded.pending,
           ls |-> savePendingEffect(loaded.ls, loaded.pending)]
     ELSE [pending |-> <<>>, ls |-> loaded.ls]

\* lines 266-268: projectGallery.map(img => img.imageUrl).filter(Boolean)
truthyGalleryUrls(gallery) ==
  {gallery[i].imageUrl : i \in 1..Len(gallery)} \ {BlankUrl}

\* lines 258-299: the cleanup function of the effect on
\* [cleanupUploads, uploadSessions, projectGallery, pendingImages]
cleanupOnUnmount(cl) ==
  IF cl.sessions # {}
  THEN {[kind |-> "session", sessionId |-> sid, fileUrl |-> BlankUrl,
         inst |-> inst,
         preserve |-> truthyGalleryUrls(cl.gallery)
                        \cup {cl.pending[i].url : i \in 1..Len(cl.pending)}]
          : sid \in cl.sessions}
  ELSE {}

\* The render that follows a state update: the mirror effect when
\* pendingImages is a new array, and the cleanup effect (the old cleanup
\* function, then the new set-up) when one of its dependencies is new.
AfterRender(pendChanged, depsChanged, ls0, ownCalls) ==
  /\ localStorage' = IF pendChanged
                     THEN savePendingEffect(ls0, pendingImages') ELSE ls0
  /\ effClosure' = IF depsChanged
                   THEN [sessions |-> uploadSessions',
                         gallery |-> projectGallery',
                         pending |-> pendingImages']
                   ELSE effClosure
  /\ cleanups' = ownCalls \cup
                   (IF depsChanged THEN cleanupOnUnmount(effClosure) ELSE {})

(* --------------------- Pending Item Store: editing --------------------- *)
\* newPendingImages.splice(index, 1)
splice(list, index) ==
  [i \in 1..(Len(list) - 1) |-> IF i < index THEN list[i] ELSE list[i + 1]]

\* lines 617-655 of handleDeletePendingImage: the cleanup request it sends
deleteCleanupCalls(cl, index) ==
  LET pendingImage == cl.pending[index]
      existingImageUrls == {cl.gallery[i].imageUrl : i \in 1..Len(cl.gallery)}
      otherPendingUrls ==
        {cl.pending[i].url : i \in (1..Len(cl.pending)) \ {index}}
  IN IF pendingImage.url # BlankUrl
     THEN IF pendingImage.url \in existingImageUrls
          THEN {}
          ELSE {[kind |-> "file", sessionId |-> 0,
                 fileUrl |-> pendingImage.url, inst |-> inst,
                 preserve |-> existingImageUrls \cup otherPendingUrls]}
     ELSE {}

\* the characters parseInt reads as decimal digits
DigitValue(ch) ==
  CASE ch = "0" -> 0 [] ch = "1" -> 1 [] ch = "2" -> 2 [] ch = "3" -> 3
    [] ch = "4" -> 4 [] ch = "5" -> 5 [] ch = "6" -> 6 [] ch = "7" -> 7
    [] ch = "8" -> 8 [] ch = "9" -> 9 [] OTHER -> -1

\* parseInt(order, 10) of a string given as its characters: the value of
\* the leading digits, NaN when there are none
parseInt(str) ==
  LET bad == {i \in 1..Len(str) : DigitValue(str[i]) < 0}
      n == IF bad = {} THEN Len(str)
           ELSE (CHOOSE i \in bad : \A j \in bad : i <= j) - 1
      V[i \in 0..n] == IF i = 0 THEN 0 ELSE 10 * V[i - 1] + DigitValue(str[i])
  IN [nan |-> n = 0, value |-> V[n]]

\* what the user may type into an order field
OrderInputs == {<<"4">>, <<"x">>, <<"2", "x">>}

\* what the user may type into a caption field
CaptionInputs == {"edited"}

(* ----------------------- Reconciliation Engine ------------------------- *)
\* lines 404-434 without the existingUrls filter of line 424
mergeWithLocalStorageUnfiltered(M, ls) ==
  IF hasItem(ls, StorageKey) /\ IsJSON(ls[StorageKey])
  THEN IF Len(M) = 0 THEN JSONparse(ls[StorageKey])
       ELSE M \o JSONparse(ls[StorageKey])
  ELSE M

\* lines 404-434: loadedPendingImages from the state M and the mirror
mergeWithLocalStorage(M, ls) ==
  IF hasItem(ls, StorageKey) /\ IsJSON(ls[StorageKey])
  THEN LET parsedImages == JSONparse(ls[StorageKey])
           existingUrls == {M[i].url : i \in 1..Len(M)}
           N[i \in 0..Len(parsedImages)] ==
             IF i = 0 THEN <<>>
             ELSE IF parsedImages[i].url \notin existingUrls
                  THEN Append(N[i - 1], parsedImages[i]) ELSE N[i - 1]
           newImages == N[Len(parsedImages)]
       IN IF Len(parsedImages) > 0 /\ Len(M) = 0 THEN parsedImages
          ELSE IF Len(parsedImages) > 0 /\ Len(M) > 0 /\ Len(newImages) > 0
               THEN M \o newImages
               ELSE M
  ELSE M

\* lines 887-899: the Save button's own look at the mirror
buttonPreload(M, ls) ==
  IF hasItem(ls, StorageKey) /\ IsJSON(ls[StorageKey])
  THEN LET parsedImages == JSONparse(ls[StorageKey])
       IN [set |-> Len(parsedImages) > 0 /\ Len(M) = 0,
           pending |-> parsedImages]
  ELSE [set |-> FALSE, pending |-> <<>>]

\* lines 486-488: currentGallery.map(img => img.imageUrl || '')
existingUrlsOf(currentGallery) ==
  [i \in 1..Len(currentGallery) |-> currentGallery[i].imageUrl]

\* lines 496-502 without the split('?')[0].trim() of lines 497 and 501
alreadyInGalleryExact(pendingImg, existingImageUrls) ==
  \E i \in 1..Len(existingImageUrls) : existingImageUrls[i] = pendingImg.url

\* lines 496-502: the pending entry is already in the gallery
alreadyInGallery(pendingImg, existingImageUrls) ==
  \E i \in 1..Len(existingImageUrls) :
    NormalizeUrl(existingImageUrls[i]) = NormalizeUrl(pendingImg.url)

\* lines 494-510 without the filter
filterNewPendingKeepAll(loaded, existingImageUrls) == loaded

\* lines 494-510: newPendingImages
filterNewPending(loaded, existingImageUrls) ==
  LET F[i \in 0..Len(loaded)] ==
        IF i = 0 THEN <<>>
        ELSE IF alreadyInGallery(loaded[i], existingImageUrls)
             THEN F[i - 1] ELSE Append(F[i - 1], loaded[i])
  IN F[Len(loaded)]

\* lines 515-520, were the loop to run from the end of the list
nextWithUrlLast(newPending, i) ==
  LET ok == {j \in i..Len(newPending) : newPending[j].url # BlankUrl}
  IN IF ok = {} THEN Len(newPending) + 1
     ELSE CHOOSE j \in ok : \A k \in ok : j >= k

\* lines 515-520: the next entry of the loop that has a url, from index i
nextWithUrl(newPending, i) ==
  LET ok == {j \in i..Len(newPending) : newPending[j].url # BlankUrl}
  IN IF ok = {} THEN Len(newPending) + 1
     ELSE CHOOSE j \in ok : \A k \in ok : j <= k

\* lines 515-553: the persist loop from index i on, up to its next await
enterLoop(s, i) ==
  LET j == nextWithUrl(s.newPending, i)
  IN IF j <= Len(s.newPending)
     THEN [s EXCEPT !.pc = "persist", !.idx = j]
     ELSE IF Len(s.sessions) > 0
          THEN [s EXCEPT !.pc = "commit", !.idx = j, !.sess = s.sessions]
          ELSE [s EXCEPT !.pc = "done", !.idx = j]

\* lines 543-546 (existing owner) and 455 (new project): the urls committed
commitUrls(s) ==
  IF s.pc = "commitNew"
  THEN {s.loaded[i].url : i \in 1..Len(s.loaded)}
  ELSE {s.M[i].url : i \in 1..Len(s.M)} \cup Range(s.existing)

\* lines 522-531: POST /gallery as the remote API carries it out
persisted(gallery, pendingImage) ==
  Append(gallery,
         [id |-> Len(gallery) + 1, imageUrl |-> pendingImage.url,
          caption |-> pendingImage.caption,
          displayOrder |-> <<pendingImage.displayOrder>>])

(* ------------------------------- Init ---------------------------------- *)
\* nothing thrown
NoError == [request |-> "", nums |-> <<>>]

\* the error a refused request (GET gallery, POST gallery, commit) rejects
\* with: it names the request and carries no count
requestError(pc) == [request |-> pc, nums |-> <<>>]

MkEv(name) ==
  [name |-> name, slot |-> "", ok |-> TRUE, outcome |-> "", urls |-> <<>>,
   index |-> 0, inRow |-> "none", fresh |-> FALSE, call |-> IdleSave,
   thrown |-> NoError]

\* handler invocations so far
nOps == nUploads + nSaves + nEdits + nDeletes

NoClosure == [sessions |-> {}, gallery |-> <<>>, pending |-> <<>>]

\* Before the first mount: the owner is a draft (isNewProject) with no
\* gallery, or an existing project whose gallery the cache has loaded.
Init ==
  /\ mounted = FALSE
  /\ inst = 0
  /\ isNewProject \in BOOLEAN
  /\ server \in {InitGallery(n) : n \in IF isNewProject THEN {0} ELSE InitSizes}
  /\ projectGallery = server
  /\ pendingImages = <<>>
  /\ localStorage = <<>>
  /\ uploadSessions = {}
  /\ committed = {}
  /\ uploads = {}
  /\ save = [s \in Slots |-> IdleSave]
  /\ isUploading = FALSE
  /\ showMaxImagesWarning = FALSE
  /\ effClosure = NoClosure
  /\ cleanups = {}
  /\ commits = {}
  /\ toast = NoToast
  /\ ev = MkEv("init")
  /\ nUploads = 0 /\ nSaves = 0 /\ nEdits = 0 /\ nDeletes = 0
  /\ orderEdited = FALSE
  /\ orderCalls = {} /\ modifiedOrders = {} /\ move = NoMove
  /\ featureStars = {} /\ featureCalls = {}
  /\ modifiedCaptions = {} /\ captionCalls = {}
  /\ updateFailures = {}
  /\ blog = NoBlog /\ team = NoTeam
  /\ row = "none"

(* --------------------------- mount, unmount ---------------------------- *)
\* lines 141-300: the first render of a new instance and its effects
Mount ==
  /\ ~mounted
  /\ inst < MaxMounts
  /\ mounted' = TRUE
  /\ inst' = inst + 1
  /\ pendingImages' = mountEffects(localStorage).pending
  /\ localStorage' = mountEffects(localStorage).ls
  /\ uploadSessions' = {}
  /\ isUploading' = FALSE
  /\ showMaxImagesWarning' = FALSE
  /\ effClosure' = [sessions |-> {}, gallery |-> projectGallery,
                    pending |-> pendingImages']
  /\ cleanups' = {}
  /\ commits' = {}
  /\ toast' = NoToast
  /\ ev' = MkEv("mount")
  /\ orderEdited' = FALSE
  /\ modifiedOrders' = {}
  /\ modifiedCaptions' = {}
  /\ featureStars' = {}
  /\ UNCHANGED <<orderCalls, move, featureCalls, captionCalls>>
  /\ UNCHANGED otherComponents
  /\ updateFailures' = {}
  /\ row' = "none"
  /\ UNCHANGED <<isNewProject, server, projectGallery, committed, uploads,
                 save, nUploads, nSaves, nEdits, nDeletes>>

\* lines 256-300: unmounting runs the cleanup function of the last render;
\* the instance's state is gone, its asynchronous handlers run on
Unmount ==
  /\ mounted
  /\ mounted' = FALSE
  /\ cleanups' = cleanupOnUnmount(effClosure)
  /\ effClosure' = NoClosure
  /\ pendingImages' = <<>>
  /\ uploadSessions' = {}
  /\ isUploading' = FALSE
  /\ showMaxImagesWarning' = FALSE
  /\ commits' = {}
  /\ toast' = NoToast
  /\ ev' = MkEv("unmount")
  /\ orderEdited' = FALSE
  /\ modifiedOrders' = {}
  /\ modifiedCaptions' = {}
  /\ featureStars' = {}
  /\ UNCHANGED <<orderCalls, move, featureCalls, captionCalls>>
  /\ UNCHANGED otherComponents
  /\ updateFailures' = {}
  /\ row' = "none"
  /\ UNCHANGED <<inst, isNewProject, server, projectGallery, localStorage,
                 committed, uploads, save, nUploads, nSaves, nEdits, nDeletes>>

\* useProject's gallery query delivers the remote gallery to the component
GalleryRefetch ==
  /\ mounted
  /\ projectGallery # server
  /\ projectGallery' = server
  /\ UNCHANGED <<pendingImages, uploadSessions>>
  /\ AfterRender(FALSE, TRUE, localStorage, {})
  /\ commits' = {}
  /\ toast' = NoToast
  /\ ev' = MkEv("refetch")
  /\ UNCHANGED <<orderCalls, modifiedOrders, move>>
  /\ UNCHANGED savedVars
  /\ UNCHANGED otherComponents
  /\ UNCHANGED updateFailures
  /\ UNCHANGED <<mounted, inst, isNewProject, server, committed, uploads,
                 save, isUploading, showMaxImagesWarning, nUploads, nSaves,
                 nEdits, nDeletes, orderEdited, row>>

(* ------------------------------ uploads -------------------------------- *)
\* the urls the upload provider may report for batch k: new files, a file
\* without ufsUrl, or a stored path with a query string
UploadResults(k) ==
  {[i \in 1..n |-> FileUrl(k, i)] : n \in 1..MaxBatch}
    \cup {<<BlankUrl>>}
    \cup (IF Len(server) > 0 THEN {<<WithQuery(server[1].imageUrl)>>} ELSE {})

\* lines 929-957: onClientUploadComplete up to the commitUploads call
OnClientUploadComplete(urls) ==
  /\ mounted
  /\ nUploads < MaxUploads
  /\ nOps < MaxOps
  /\ canAddMoreImages(Closure)
  /\ nUploads' = nUploads + 1
  /\ uploadSessions' = uploadSessions \cup {nUploads'}
  /\ uploads' = uploads \cup
       {[sid |-> nUploads', urls |-> urls, inst |-> inst, cl |-> Closure]}
  /\ commits' = {[sessionId |-> nUploads', urls |-> Range(urls)]}
  /\ UNCHANGED <<pendingImages, projectGallery>>
  /\ AfterRender(FALSE, TRUE, localStorage, {})
  /\ toast' = NoToast
  /\ ev' = [MkEv("uploadComplete") EXCEPT !.urls = urls]
  /\ row' = "none"
  /\ UNCHANGED <<orderCalls, modifiedOrders, move>>
  /\ UNCHANGED savedVars
  /\ UNCHANGED otherComponents
  /\ UNCHANGED updateFailures
  /\ UNCHANGED <<mounted, inst, isNewProject, server, committed, save,
                 isUploading, showMaxImagesWarning, nSaves, nEdits, nDeletes,
                 orderEdited>>

\* lines 957-970, were the catch handler to log only
runsHandleFileUploadIfCommitted(ok) == ok

\* lines 957-970: handleFileUpload(urls) is called by the then handler and
\* by the catch handler
runsHandleFileUpload(ok) == TRUE

\* lines 957-971: the commit call settles (then or catch) and
\* handleFileUpload(urls) runs with the values of the render it was made in
CommitResolved(u, ok) ==
  /\ u \in uploads
  /\ uploads' = uploads \ {u}
  /\ committed' = IF ok THEN committed \cup {u.sid} ELSE committed
  /\ toast' = IF runsHandleFileUpload(ok)
              THEN handleFileUpload(u.cl, u.urls).toast ELSE NoToast
  /\ IF mounted /\ u.inst = inst /\ runsHandleFileUpload(ok)
     THEN LET r == handleFileUpload(u.cl, u.urls)
          IN /\ pendingImages' =
                  IF r.sets THEN pendingImages \o r.added ELSE pendingImages
             /\ showMaxImagesWarning' =
                  IF r.warn THEN TRUE ELSE showMaxImagesWarning
             /\ UNCHANGED <<uploadSessions, projectGallery>>
             /\ AfterRender(r.sets, r.sets,
                            IF r.sets
                            THEN setItem(localStorage, StorageKey,
                                         JSONstringify(pendingImages'))
                            ELSE localStorage, {})
             /\ ev' = [MkEv("add") EXCEPT
                        !.urls = u.urls, !.ok = ok,
                        !.fresh = (u.cl.gallery = projectGallery
                                     /\ u.cl.pending = pendingImages)]
     ELSE /\ UNCHANGED <<pendingImages, showMaxImagesWarning, uploadSessions,
                         projectGallery, localStorage, effClosure>>
          /\ cleanups' = {}
          /\ ev' = [MkEv("addDropped") EXCEPT !.urls = u.urls, !.ok = ok]
  /\ commits' = {}
  /\ row' = "none"
  /\ UNCHANGED <<orderCalls, modifiedOrders, move>>
  /\ UNCHANGED savedVars
  /\ UNCHANGED otherComponents
  /\ UNCHANGED updateFailures
  /\ UNCHANGED <<mounted, inst, isNewProject, server, save, isUploading,
                 nUploads, nSaves, nEdits, nDeletes, orderEdited>>

(* ------------------------- editing the pending list -------------------- *)
\* lines 606-658
handleDeletePendingImage(index) ==
  /\ mounted
  /\ nDeletes < MaxDeletes
  /\ nOps < MaxOps
  /\ index \in 1..Len(pendingImages)
  /\ nDeletes' = nDeletes + 1
  /\ pendingImages' = splice(pendingImages, index)
  /\ showMaxImagesWarning' = FALSE
  /\ UNCHANGED <<uploadSessions, projectGallery>>
  /\ AfterRender(TRUE, TRUE, localStorage, deleteCleanupCalls(Closure, index))
  /\ commits' = {}
  /\ toast' = NoToast
  /\ ev' = [MkEv("delete") EXCEPT !.index = index]
  /\ row' = "none"
  /\ UNCHANGED <<orderCalls, modifiedOrders, move>>
  /\ UNCHANGED savedVars
  /\ UNCHANGED otherComponents
  /\ UNCHANGED updateFailures
  /\ UNCHANGED <<mounted, inst, isNewProject, server, committed, uploads,
                 save, isUploading, nUploads, nSaves, nEdits, orderEdited>>

\* what a handler that replaces the pending list leaves alone
EditFrame ==
  /\ UNCHANGED <<uploadSessions, projectGallery>>
  /\ AfterRender(TRUE, TRUE, localStorage, {})
  /\ nEdits' = nEdits + 1
  /\ commits' = {}
  /\ toast' = NoToast
  /\ row' = "none"
  /\ UNCHANGED <<orderCalls, modifiedOrders, move>>
  /\ UNCHANGED savedVars
  /\ UNCHANGED otherComponents
  /\ UNCHANGED updateFailures
  /\ UNCHANGED <<mounted, inst, isNewProject, server, committed, uploads,
                 save, isUploading, showMaxImagesWarning, nUploads, nSaves,
                 nDeletes>>

\* lines 731-738
handleUpdatePendingImageCaption(index, caption) ==
  /\ mounted
  /\ nEdits < MaxEdits
  /\ nOps < MaxOps
  /\ index \in 1..Len(pendingImages)
  /\ pendingImages' = [pendingImages EXCEPT ![index].caption = caption]
  /\ ev' = [MkEv("updateCaption") EXCEPT !.index = index]
  /\ UNCHANGED orderEdited
  /\ EditFrame

\* lines 741-751
handleUpdatePendingImageOrder(index, order) ==
  /\ mounted
  /\ nEdits < MaxEdits
  /\ nOps < MaxOps
  /\ index \in 1..Len(pendingImages)
  /\ ~parseInt(order).nan
  /\ pendingImages' =
       [pendingImages EXCEPT ![index].displayOrder = parseInt(order).value]
  /\ ev' = [MkEv("updateOrder") EXCEPT !.index = index]
  /\ orderEdited' = TRUE
  /\ EditFrame

\* lines 1025-1029: onReorderPendingItems(items), items being the list with
\* the entries at index and index + 1 exchanged by a drag
onReorderPendingItems(index) ==
  /\ mounted
  /\ nEdits < MaxEdits
  /\ nOps < MaxOps
  /\ index \in 1..(Len(pendingImages) - 1)
  /\ pendingImages' = [pendingImages EXCEPT ![index] = pendingImages[index + 1],
                                            ![index + 1] = pendingImages[index]]
  /\ ev' = [MkEv("reorder") EXCEPT !.index = index]
  /\ orderEdited' = TRUE
  /\ EditFrame

(* --------------------------- saveGalleryImages ------------------------- *)
\* the instance that started the call s is still the mounted one, so its
\* state setters act
alive(s) == mounted /\ s.inst = inst

\* lines 555-558
galleryUpdatedToast(s) ==
  [title |-> "Gallery updated", variant |-> "",
   nums |-> <<Len(s.newPending)>>]

\* lines 464-467
imagesSavedToast(s) ==
  [title |-> "Images saved", variant |-> "", nums |-> <<Len(s.loaded)>>]

\* lines 566-570, were the description to count the images added
saveFailedToastCounting ==
  [title |-> "Save failed", variant |-> "destructive", nums |-> <<0>>]

\* lines 566-570
saveFailedToast ==
  [title |-> "Save failed", variant |-> "destructive", nums |-> <<>>]

\* where a call waits for a request to settle
Running == {"fetch", "persist", "commit", "commitNew"}

\* lines 458-461 and 549-552: the sessions the call has asked to commit,
\* the one it is about to wait for included
withCommitCall(s) ==
  IF s.pc \in {"commit", "commitNew"}
  THEN [s EXCEPT !.called = Append(s.called, Head(s.sess))]
  ELSE s

\* lines 560-562, were they in the finally block
clearsPendingAlways(s) == s.pc \in {"done", "error"}

\* lines 560-562 are reached: the try block ran to its end
clearsPending(s) == s.pc = "done"

\* lines 442-475 without the isNewProject branch of lines 451-470
firstAwaitAlwaysFetch(s0, isNew) ==
  IF Len(s0.loaded) = 0 THEN [s0 EXCEPT !.pc = "noop"]
  ELSE [s0 EXCEPT !.pc = "fetch"]

\* lines 442-475: where the call goes once loadedPendingImages is known
firstAwait(s0, isNew) ==
  IF Len(s0.loaded) = 0 THEN [s0 EXCEPT !.pc = "noop"]
  ELSE IF isNew
  THEN IF Len(s0.sessions) > 0
       THEN [s0 EXCEPT !.pc = "commitNew", !.sess = s0.sessions]
       ELSE [s0 EXCEPT !.pc = "deferred"]
  ELSE [s0 EXCEPT !.pc = "fetch"]

\* lines 442-445, 464-469 and 555-574: the call s has run up to its next
\* await (pc fetch, persist, commit, commitNew) or to its end (pc noop,
\* deferred, done, error); pre is the Save button's setPendingImages, if any
Settle(slot, s, pre, name, ok) ==
  /\ UNCHANGED <<uploadSessions, projectGallery>>
  /\ save' = [save EXCEPT ![slot] =
                IF s.pc \in Running THEN withCommitCall(s) ELSE IdleSave]
  /\ commits' = IF s.pc \in {"commit", "commitNew"}
                THEN {[sessionId |-> Head(s.sess), urls |-> commitUrls(s)]}
                ELSE {}
  /\ toast' = CASE s.pc = "done" -> galleryUpdatedToast(s)
                [] s.pc = "deferred" -> imagesSavedToast(s)
                [] s.pc = "error" -> saveFailedToast
                [] OTHER -> NoToast
  /\ ev' = [MkEv(name) EXCEPT !.slot = slot, !.ok = ok, !.outcome = s.pc,
                              !.inRow = s.inRow, !.call = withCommitCall(s),
                              !.thrown = IF s.pc = "error"
                                         THEN requestError(save[slot].pc)
                                         ELSE NoError]
  /\ row' = IF name = "saveStart" /\ s.pc \in Running THEN slot
            ELSE IF name # "saveStart" /\ row # slot THEN "none"
            ELSE IF s.pc \in Running THEN slot
            ELSE IF s.pc \in {"noop", "done"}
                    \/ (s.pc = "error" /\ save[slot].pc = "commit")
                 THEN "ran"
            ELSE IF s.pc = "error" THEN "failed" ELSE "none"
  /\ IF clearsPending(s)
     THEN \* lines 560-563 and 573
          IF alive(s)
          THEN /\ pendingImages' = <<>>
               /\ AfterRender(TRUE, TRUE,
                              removeItem(localStorage, StorageKey), {})
               /\ showMaxImagesWarning' = FALSE
               /\ isUploading' = FALSE
               /\ orderEdited' = FALSE
          ELSE /\ localStorage' = removeItem(localStorage, StorageKey)
               /\ cleanups' = {}
               /\ UNCHANGED <<pendingImages, effClosure, isUploading,
                              showMaxImagesWarning, orderEdited>>
     ELSE /\ pendingImages' = IF pre.set THEN pre.pending ELSE pendingImages
          /\ AfterRender(pre.set, pre.set, localStorage, {})
          /\ isUploading' =
               IF alive(s) /\ s.pc # "noop"
               THEN s.pc \in Running
               ELSE isUploading
          /\ UNCHANGED <<showMaxImagesWarning, orderEdited>>
  /\ UNCHANGED <<orderCalls, modifiedOrders, move>>
  /\ UNCHANGED savedVars
  /\ UNCHANGED otherComponents
  /\ UNCHANGED updateFailures
  /\ UNCHANGED <<mounted, inst, isNewProject, uploads, nUploads, nEdits,
                 nDeletes>>

NoPreload == [set |-> FALSE, pending |-> <<>>]

\* lines 397-447 (and 882-902 for the Save button): the call up to its
\* first await
SaveStart(slot) ==
  /\ mounted
  /\ nSaves < MaxSaves
  /\ nOps < MaxOps
  /\ save[slot].pc = "idle"
  /\ slot = "button" => ~isUploading
  /\ nSaves' = nSaves + 1
  /\ LET s0 == [IdleSave EXCEPT
                  !.inst = inst, !.M = pendingImages,
                  !.sessions = SetToSeq(uploadSessions),
                  !.loaded = mergeWithLocalStorage(pendingImages, localStorage),
                  !.inRow = row]
         s1 == firstAwait(s0, isNewProject)
     IN Settle(slot, s1,
               IF slot = "button"
               THEN buttonPreload(pendingImages, localStorage) ELSE NoPreload,
               "saveStart", TRUE)
  /\ UNCHANGED <<server, committed>>

\* lines 478-512: GET /gallery settles
SaveFetch(slot, ok) ==
  /\ save[slot].pc = "fetch"
  /\ LET s == save[slot]
         s1 == IF ok
               THEN enterLoop([s EXCEPT
                                 !.existing = existingUrlsOf(server),
                                 !.newPending =
                                   filterNewPending(s.loaded,
                                                    existingUrlsOf(server))],
                              1)
               ELSE [s EXCEPT !.pc = "error"]
     IN Settle(slot, s1, NoPreload, "saveFetch", ok)
  /\ UNCHANGED <<server, committed, nSaves>>

\* lines 530-536: POST /gallery settles
SavePersist(slot, ok) ==
  /\ save[slot].pc = "persist"
  /\ LET s == save[slot]
     IN /\ server' = IF ok THEN persisted(server, s.newPending[s.idx])
                     ELSE server
        /\ Settle(slot,
                  IF ok
                  THEN enterLoop([s EXCEPT !.posted =
                                    Append(s.posted, s.newPending[s.idx])],
                                 s.idx + 1)
                  ELSE [s EXCEPT !.pc = "error"],
                  NoPreload, "savePersist", ok)
  /\ UNCHANGED <<committed, nSaves>>

\* lines 458-461 and 549-552: commitUploads settles
SaveCommit(slot, ok) ==
  /\ save[slot].pc \in {"commit", "commitNew"}
  /\ LET s == save[slot]
     IN /\ committed' = IF ok THEN committed \cup {Head(s.sess)}
                        ELSE committed
        /\ Settle(slot,
                  IF ~ok THEN [s EXCEPT !.pc = "error"]
                  ELSE IF Len(s.sess) > 1 THEN [s EXCEPT !.sess = Tail(s.sess)]
                  ELSE [s EXCEPT !.pc = IF s.pc = "commit" THEN "done"
                                        ELSE "deferred"],
                  NoPreload, "saveCommit", ok)
  /\ UNCHANGED <<server, nSaves>>

Next ==
  \/ Mount
  \/ Unmount
  \/ GalleryRefetch
  \/ \E urls \in UploadResults(nUploads + 1) : OnClientUploadComplete(urls)
  \/ \E u \in uploads, ok \in BOOLEAN : CommitResolved(u, ok)
  \/ \E i \in 1..Len(pendingImages) : handleDeletePendingImage(i)
  \/ \E i \in 1..Len(pendingImages), c \in CaptionInputs :
       handleUpdatePendingImageCaption(i, c)
  \/ \E i \in 1..Len(pendingImages), o \in OrderInputs :
       handleUpdatePendingImageOrder(i, o)
  \/ \E i \in 1..Len(pendingImages) : onReorderPendingItems(i)
  \/ \E slot \in Slots : SaveStart(slot)
  \/ \E slot \in Slots, ok \in BOOLEAN : SaveFetch(slot, ok)
  \/ \E slot \in Slots, ok \in BOOLEAN : SavePersist(slot, ok)
  \/ \E slot \in Slots, ok \in BOOLEAN : SaveCommit(slot, ok)

Spec == Init /\ [][Next]_vars

(* -------------- the handlers on inputs drawn from small sets ----------- *)
\* files in a batch handed to handleFileUpload on its own
MaxAddBatch == 5
\* pending entries already there when handleFileUpload runs on its own
MaxAddPending == 2
\* sizes of the persisted gallery when handleFileUpload runs on its own
AddSizes == {0, 5, 8, 9, 10}

\* A mounted component of an existing project with the persisted gallery g
\* (loaded by the cache), the pending list p, the mirror ls and the upload
\* completions ups waiting for their commit call.
MountedWith(g, p, ls, ups) ==
  /\ mounted = TRUE
  /\ inst = 1
  /\ isNewProject = FALSE
  /\ server = g
  /\ projectGallery = g
  /\ pendingImages = p
  /\ localStorage = ls
  /\ uploadSessions = {u.sid : u \in ups}
  /\ committed = {}
  /\ uploads = ups
  /\ save = [s \in Slots |-> IdleSave]
  /\ isUploading = FALSE
  /\ showMaxImagesWarning = FALSE
  /\ effClosure = [sessions |-> {u.sid : u \in ups}, gallery |-> g,
                   pending |-> p]
  /\ cleanups = {}
  /\ commits = {}
  /\ toast = NoToast
  /\ ev = MkEv("init")
  /\ nUploads = Cardinality(ups) /\ nSaves = 0 /\ nEdits = 0 /\ nDeletes = 0
  /\ orderEdited = FALSE
  /\ orderCalls = {} /\ modifiedOrders = {} /\ move = NoMove
  /\ featureStars = {} /\ featureCalls = {}
  /\ modifiedCaptions = {} /\ captionCalls = {}
  /\ updateFailures = {}
  /\ blog = NoBlog /\ team = NoTeam
  /\ row = "none"

\* the pending list k earlier uploads of one file each leave, after gallery g
PendingAfter(g, k) ==
  [i \in 1..k |-> [url |-> FileUrl(9, i), caption |-> "Project image 1",
                   displayOrder |-> IF Len(g) > 0 THEN Len(g) + 1 ELSE i]]

\* handleFileUpload(urls) is about to run in a component whose gallery and
\* pending list together hold up to MAX_GALLERY_IMAGES images
AddInit ==
  \E n \in AddSizes, k \in 0..MaxAddPending, b \in 1..MaxAddBatch :
    /\ n + k <= MAX_GALLERY_IMAGES
    /\ LET g == InitGallery(n)
           p == PendingAfter(g, k)
           cl == [sessions |-> {1}, gallery |-> g, pending |-> p]
       IN MountedWith(g, p, savePendingEffect(<<>>, p),
                      {[sid |-> 1, urls |-> [i \in 1..b |-> FileUrl(1, i)],
                        inst |-> 1, cl |-> cl]})

AddNext == \E u \in uploads, ok \in BOOLEAN : CommitResolved(u, ok)

SpecAdd == AddInit /\ [][AddNext]_vars

\* pending entries as the state or the mirror may hold them
SomeEntries ==
  {[url |-> u, caption |-> c, displayOrder |-> 1] :
     u \in {FileUrl(1, 1), FileUrl(1, 2)}, c \in {"a", "b"}}

SomeLists ==
  {<<>>} \cup {<<e>> : e \in SomeEntries}
         \cup {<<e, f>> : e \in SomeEntries, f \in SomeEntries}

\* the mirror: key absent, a value JSON.parse rejects, or a stored list
\* (the key is shared by every tab that has the project open)
SomeMirrors ==
  {<<>>, setItem(<<>>, StorageKey, CorruptText)}
    \cup {setItem(<<>>, StorageKey, JSONstringify(l)) : l \in SomeLists}

\* saveGalleryImages is about to run with the state M and the mirror ls
MergeInit ==
  \E M \in SomeLists, ls \in SomeMirrors :
    MountedWith(InitGallery(0), M, ls, {})

MergeNext == \E slot \in Slots : SaveStart(slot)

SpecMerge == MergeInit /\ [][MergeNext]_vars

\* A mounted component of an existing project that tracks the upload
\* sessions sess, every upload of which has had its commit call answered.
TrackingWith(g, p, sess) ==
  /\ mounted = TRUE
  /\ inst = 1
  /\ isNewProject = FALSE
  /\ server = g
  /\ projectGallery = g
  /\ pendingImages = p
  /\ localStorage = savePendingEffect(<<>>, p)
  /\ uploadSessions = sess
  /\ committed = {}
  /\ uploads = {}
  /\ save = [s \in Slots |-> IdleSave]
  /\ isUploading = FALSE
  /\ showMaxImagesWarning = FALSE
  /\ effClosure = [sessions |-> sess, gallery |-> g, pending |-> p]
  /\ cleanups = {}
  /\ commits = {}
  /\ toast = NoToast
  /\ ev = MkEv("init")
  /\ nUploads = Cardinality(sess) /\ nSaves = 0 /\ nEdits = 0 /\ nDeletes = 0
  /\ orderEdited = FALSE
  /\ orderCalls = {} /\ modifiedOrders = {} /\ move = NoMove
  /\ featureStars = {} /\ featureCalls = {}
  /\ modifiedCaptions = {} /\ captionCalls = {}
  /\ updateFailures = {}
  /\ blog = NoBlog /\ team = NoTeam
  /\ row = "none"

\* sets of upload sessions the component may track
SomeSessions == {{}, {1}, {1, 2}}

\* saveGalleryImages is about to run in a component that has uploaded in
\* the sessions sess and holds the pending list M
SaveInit ==
  \E M \in SomeLists, sess \in SomeSessions, n \in {0, 1} :
    TrackingWith(InitGallery(n), M, sess)

\* localStorage is shared by the tabs of the browser: a manager of the same
\* project in another tab runs its own effect of lines 229-235, which
\* stores its pending list l under the same key (no 'storage' listener
\* here); taken once, before this manager's save is called
OtherTabStores(l) ==
  /\ mounted
  /\ ev.name = "init"
  /\ localStorage' = savePendingEffect(localStorage, l)
  /\ localStorage' # localStorage
  /\ ev' = MkEv("otherTab")
  /\ UNCHANGED <<orderCalls, modifiedOrders, move>>
  /\ UNCHANGED savedVars
  /\ UNCHANGED otherComponents
  /\ UNCHANGED updateFailures
  /\ UNCHANGED <<mounted, inst, isNewProject, server, projectGallery,
                 pendingImages, uploadSessions, committed, uploads, save,
                 isUploading, showMaxImagesWarning, effClosure, cleanups,
                 commits, toast, nUploads, nSaves, nEdits, nDeletes,
                 orderEdited, row>>

SaveNext ==
  \/ \E l \in SomeLists : OtherTabStores(l)
  \/ \E slot \in Slots : SaveStart(slot)
  \/ \E slot \in Slots, ok \in BOOLEAN : SaveFetch(slot, ok)
  \/ \E slot \in Slots, ok \in BOOLEAN : SavePersist(slot, ok)
  \/ \E slot \in Slots, ok \in BOOLEAN : SaveCommit(slot, ok)

SpecSave == SaveInit /\ [][SaveNext]_vars

(* ---------------------------- Order Manager ---------------------------- *)
\* reorderings of persisted entries in one run
MaxMoves == 2

\* drags of the saved items in one run
MaxReorders == 1

\* displayOrder values of persisted entries (null as <<>>)
SomeOrders == {<<>>, <<0>>, <<2>>, <<5>>}

\* persisted galleries of three entries
OrderGalleries ==
  {[j \in 1..3 |-> [id |-> j, imageUrl |-> GalleryUrl(j), caption |-> "g",
                    displayOrder |-> o[j]]] : o \in [1..3 -> SomeOrders]}

\* lines 812 and 828: (x.displayOrder || 0), negated for the descending sort
orderKey(img, desc) ==
  LET o == IF img.displayOrder = <<>> THEN 0 ELSE img.displayOrder[1]
  IN IF desc THEN 0 - o ELSE o

\* Array.prototype.sort is stable: img goes after the entries that do not
\* sort after it
RECURSIVE insertByOrder(_, _, _)
insertByOrder(sorted, img, desc) ==
  IF sorted = <<>> THEN <<img>>
  ELSE IF orderKey(Head(sorted), desc) <= orderKey(img, desc)
  THEN <<Head(sorted)>> \o insertByOrder(Tail(sorted), img, desc)
  ELSE <<img>> \o sorted

RECURSIVE sortByOrder(_, _)
sortByOrder(list, desc) ==
  IF list = <<>> THEN <<>>
  ELSE insertByOrder(sortByOrder(SubSeq(list, 1, Len(list) - 1), desc),
                     list[Len(list)], desc)

\* lines 809-811 without the sort
higherImagesUnsorted(gallery, currentOrder) ==
  SelectSeq(gallery, LAMBDA img : /\ img.displayOrder # <<>>
                                  /\ img.displayOrder[1] < currentOrder)

\* lines 809-811: entries ordered before currentOrder, nearest first
higherImages(gallery, currentOrder) ==
  sortByOrder(SelectSeq(gallery, LAMBDA img : /\ img.displayOrder # <<>>
                                              /\ img.displayOrder[1] < currentOrder),
              TRUE)

\* lines 825-827: entries ordered after currentOrder, nearest first
lowerImages(gallery, currentOrder) ==
  sortByOrder(SelectSeq(gallery, LAMBDA img : /\ img.displayOrder # <<>>
                                              /\ img.displayOrder[1] > currentOrder),
              FALSE)

\* line 707: the request handleUpdateImageOrder(id, displayOrder) sends
orderRequest(id, displayOrder, n) ==
  [id |-> id, displayOrder |-> displayOrder, move |-> n, inst |-> inst]

\* lines 814-817 and 830-833: the two handleUpdateImageOrder calls
swapCalls(id, currentOrder, candidates, n) ==
  IF candidates = <<>> THEN {}
  ELSE LET targetImage == candidates[1]
       IN {orderRequest(id, IF targetImage.displayOrder = <<>> THEN 0
                            ELSE targetImage.displayOrder[1], n),
           orderRequest(targetImage.id, currentOrder, n)}

\* lines 697-707 for each call of calls, and what the move leaves alone
moveFrame(kind, id, currentOrder, candidates, items, calls) ==
  /\ orderCalls' = orderCalls \cup calls
  /\ modifiedOrders' = modifiedOrders \cup {c.id : c \in calls}
  /\ move' = [NoMove EXCEPT
                !.n = move.n + 1, !.kind = kind, !.id = id,
                !.currentOrder = currentOrder,
                !.target = IF candidates = <<>> THEN 0 ELSE candidates[1].id,
                !.before = server, !.shown = projectGallery, !.items = items,
                !.fresh = (projectGallery = server),
                !.alone = (orderCalls = {}), !.issued = calls]
  /\ AfterRender(FALSE, FALSE, localStorage, {})
  /\ commits' = {}
  /\ toast' = NoToast
  /\ ev' = MkEv(kind)
  /\ row' = "none"
  /\ UNCHANGED savedVars
  /\ UNCHANGED otherComponents
  /\ UNCHANGED updateFailures
  /\ UNCHANGED <<mounted, inst, isNewProject, server, projectGallery,
                 pendingImages, uploadSessions, committed, uploads, save,
                 isUploading, showMaxImagesWarning, nUploads, nSaves, nEdits,
                 nDeletes, orderEdited>>

\* lines 805-818, called with the displayOrder the entry is shown with
moveImageOrderUp(id) ==
  /\ mounted
  /\ move.n < MaxMoves
  /\ \E i \in 1..Len(projectGallery) :
       /\ projectGallery[i].id = id
       /\ LET currentOrder == projectGallery[i].displayOrder
              candidates == IF currentOrder = <<>> THEN <<>>
                            ELSE higherImages(projectGallery, currentOrder[1])
          IN moveFrame("moveUp", id, currentOrder, candidates, <<>>,
                       IF currentOrder = <<>> THEN {}
                       ELSE swapCalls(id, currentOrder[1], candidates,
                                      move.n + 1))

\* lines 821-834, called with the displayOrder the entry is shown with
moveImageOrderDown(id) ==
  /\ mounted
  /\ move.n < MaxMoves
  /\ \E i \in 1..Len(projectGallery) :
       /\ projectGallery[i].id = id
       /\ LET currentOrder == projectGallery[i].displayOrder
              candidates == IF currentOrder = <<>> THEN <<>>
                            ELSE lowerImages(projectGallery, currentOrder[1])
          IN moveFrame("moveDown", id, currentOrder, candidates, <<>>,
                       IF currentOrder = <<>> THEN {}
                       ELSE swapCalls(id, currentOrder[1], candidates,
                                      move.n + 1))

\* the sequences SortableGalleryGrid hands over after a drag: the saved
\* items in their new sequence, displayOrder set to the new position or
\* left as it was
Reorderings(gallery) ==
  {[j \in 1..Len(gallery) |->
      IF renumber THEN [gallery[p[j]] EXCEPT !.displayOrder = <<j>>]
      ELSE gallery[p[j]]] :
     p \in {q \in [1..Len(gallery) -> 1..Len(gallery)] :
              \A a, b \in 1..Len(gallery) : a # b => q[a] # q[b]},
     renumber \in BOOLEAN}

\* lines 1018-1023, were the loop to start at the second item
reorderCallsSkipFirst(items, n) ==
  {orderRequest(items[j].id, items[j].displayOrder[1], n) :
     j \in {k \in 2..Len(items) : items[k].displayOrder # <<>>}}

\* lines 1018-1023 (and 697): one handleUpdateImageOrder call per item that
\* has an id and a displayOrder
reorderCalls(items, n) ==
  {orderRequest(items[j].id, items[j].displayOrder[1], n) :
     j \in {k \in 1..Len(items) : items[k].displayOrder # <<>>}}

\* lines 1016-1024: onReorderSavedItems
onReorderSavedItems(items) ==
  /\ mounted
  /\ move.n < MaxReorders
  /\ moveFrame("reorder", 0, <<>>, <<>>, items,
               reorderCalls(items, move.n + 1))

\* PATCH /gallery/:id as the remote API carries it out
withDisplayOrder(gallery, id, displayOrder) ==
  [j \in 1..Len(gallery) |->
     IF gallery[j].id = id
     THEN [gallery[j] EXCEPT !.displayOrder = <<displayOrder>>]
     ELSE gallery[j]]

\* lines 716-719
orderUpdatedToast ==
  [title |-> "Display order updated", variant |-> "", nums |-> <<>>]

\* lines 722-726
updateFailedToast ==
  [title |-> "Update failed", variant |-> "destructive", nums |-> <<>>]

\* lines 673-678 and 709-714, were the id left in the set on success too
modifiedAfterSettleKept(modified, id, ok) == modified

\* lines 673-678 and 709-714: the id leaves the modified set when the update
\* was saved; the catch blocks (lines 684-691, 720-727) leave the set alone
modifiedAfterSettle(modified, id, ok) ==
  IF ok THEN modified \ {id} ELSE modified

\* lines 707-727: updateProjectGalleryImage settles
OrderUpdateSettles(req, ok) ==
  /\ req \in orderCalls
  /\ orderCalls' = orderCalls \ {req}
  /\ server' = IF ok THEN withDisplayOrder(server, req.id, req.displayOrder)
               ELSE server
  /\ modifiedOrders' = IF mounted /\ req.inst = inst
                       THEN modifiedAfterSettle(modifiedOrders, req.id, ok)
                       ELSE modifiedOrders
  /\ updateFailures' = IF ~ok /\ mounted /\ req.inst = inst
                       THEN updateFailures \cup {[kind |-> "order", id |-> req.id]}
                       ELSE updateFailures
  /\ toast' = IF ok THEN orderUpdatedToast ELSE updateFailedToast
  /\ move' = IF req.move # move.n THEN move
             ELSE IF ok THEN [move EXCEPT !.answered = @ + 1]
             ELSE [move EXCEPT !.refused = @ + 1]
  /\ AfterRender(FALSE, FALSE, localStorage, {})
  /\ commits' = {}
  /\ ev' = [MkEv("orderUpdate") EXCEPT !.ok = ok]
  /\ row' = "none"
  /\ UNCHANGED savedVars
  /\ UNCHANGED otherComponents
  /\ UNCHANGED <<mounted, inst, isNewProject, projectGallery, pendingImages,
                 uploadSessions, committed, uploads, save, isUploading,
                 showMaxImagesWarning, nUploads, nSaves, nEdits, nDeletes,
                 orderEdited>>

\* the saved images of an existing project are shown, nothing is pending
OrderInit == \E g \in OrderGalleries : MountedWith(g, <<>>, <<>>, {})

OrderNext ==
  \/ \E id \in 1..3 : moveImageOrderUp(id)
  \/ \E id \in 1..3 : moveImageOrderDown(id)
  \/ \E req \in orderCalls, ok \in BOOLEAN : OrderUpdateSettles(req, ok)
  \/ GalleryRefetch

SpecOrder == OrderInit /\ [][OrderNext]_vars

ReorderNext ==
  \/ \E items \in Reorderings(projectGallery) : onReorderSavedItems(items)
  \/ \E req \in orderCalls, ok \in BOOLEAN : OrderUpdateSettles(req, ok)
  \/ GalleryRefetch

SpecReorder == OrderInit /\ [][ReorderNext]_vars

(* --------------------------- cleanup answers --------------------------- *)
\* how a cleanup request may end: success, a false result (a response that
\* is not ok), a rejected promise
CleanupResults == {"ok", "false", "rejected"}

\* lines 284-291 and 649-655, were a failure reported to the user
cleanupSettledToastOnFailure(c, result) ==
  IF result = "ok" THEN NoToast
  ELSE [title |-> "Cleanup failed", variant |-> "destructive", nums |-> <<>>]

\* lines 284-291 and 649-655: every outcome is logged, none is shown
cleanupSettledToast(c, result) == NoToast

\* lines 284-291 (cleanupUploads of the unmount cleanup) and 649-657 (the
\* fetch of handleDeletePendingImage): the request c settles
CleanupSettles(c, result) ==
  /\ c \in cleanups
  /\ toast' = cleanupSettledToast(c, result)
  /\ showMaxImagesWarning' =
       IF c.kind = "file" /\ mounted /\ c.inst = inst
       THEN FALSE ELSE showMaxImagesWarning
  /\ AfterRender(FALSE, FALSE, localStorage, cleanups \ {c})
  /\ commits' = {}
  /\ ev' = [MkEv("cleanupSettles") EXCEPT !.outcome = result, !.slot = c.kind]
  /\ row' = "none"
  /\ UNCHANGED <<orderCalls, modifiedOrders, move>>
  /\ UNCHANGED savedVars
  /\ UNCHANGED otherComponents
  /\ UNCHANGED updateFailures
  /\ UNCHANGED <<mounted, inst, isNewProject, server, projectGallery,
                 pendingImages, uploadSessions, committed, uploads, save,
                 isUploading, nUploads, nSaves, nEdits, nDeletes,
                 orderEdited>>

\* a component with pending images and tracked sessions is about to be
\* unmounted or to have a pending image deleted
CleanupInit ==
  \E M \in SomeLists, sess \in SomeSessions, n \in {0, 1} :
    TrackingWith(InitGallery(n), M, sess)

CleanupNext ==
  \/ Unmount
  \/ \E i \in 1..Len(pendingImages) : handleDeletePendingImage(i)
  \/ \E c \in cleanups, result \in CleanupResults : CleanupSettles(c, result)

SpecCleanup == CleanupInit /\ [][CleanupNext]_vars

(* ---------------------------- feature image ---------------------------- *)
\* setProjectFeatureImage requests in flight at a time
MaxFeatureCalls == 2

\* what every handler of the saved images leaves alone
savedFrame ==
  /\ AfterRender(FALSE, FALSE, localStorage, {})
  /\ UNCHANGED otherComponents
  /\ UNCHANGED updateFailures
  /\ commits' = {}
  /\ row' = "none"
  /\ UNCHANGED <<orderCalls, modifiedOrders, move>>
  /\ UNCHANGED <<mounted, inst, isNewProject, server, projectGallery,
                 pendingImages, uploadSessions, committed, uploads, save,
                 isUploading, showMaxImagesWarning, nUploads, nSaves, nEdits,
                 nDeletes, orderEdited>>

\* lines 1060-1064
featureUpdatedToast ==
  [title |-> "Feature image updated", variant |-> "default", nums |-> <<>>]

\* lines 1068-1072
featureErrorToast ==
  [title |-> "Error", variant |-> "destructive", nums |-> <<>>]

\* lines 1030-1089: onSetAsPreview(url); hasCallback is whether the parent
\* passed props.onSetAsPreview
onSetAsPreview(url, hasCallback) ==
  /\ mounted
  /\ Cardinality(featureCalls) < MaxFeatureCalls
  /\ IF \E i \in 1..Len(projectGallery) : projectGallery[i].imageUrl = url
     THEN LET galleryItem ==
                projectGallery[CHOOSE i \in 1..Len(projectGallery) :
                                 /\ projectGallery[i].imageUrl = url
                                 /\ \A j \in 1..(i - 1) :
                                      projectGallery[j].imageUrl # url]
          IN \* lines 1049-1055: the star of galleryItem gold, the others ''
             /\ featureStars' = {galleryItem.id}
             /\ featureCalls' = featureCalls \cup
                  {[id |-> galleryItem.id, inst |-> inst,
                    starsBefore |-> featureStars,
                    alone |-> (featureCalls = {})]}
             /\ ev' = [MkEv("setFeature") EXCEPT !.index = galleryItem.id]
     ELSE /\ UNCHANGED <<featureStars, featureCalls>>
          /\ ev' = [MkEv("setFeature") EXCEPT
                      !.outcome = IF hasCallback THEN "callback" ELSE "none"]
  /\ toast' = NoToast
  /\ savedFrame
  /\ UNCHANGED <<modifiedCaptions, captionCalls>>

\* lines 1058-1073: setProjectFeatureImage settles
FeatureSettles(call, ok) ==
  /\ call \in featureCalls
  /\ featureCalls' = featureCalls \ {call}
  /\ toast' = IF ok THEN featureUpdatedToast ELSE featureErrorToast
  /\ ev' = [MkEv("featureSettles") EXCEPT !.ok = ok, !.index = call.id]
  /\ savedFrame
  /\ UNCHANGED <<featureStars, modifiedCaptions, captionCalls>>

\* urls the grid may hand to onSetAsPreview: a saved image's or another
PreviewUrls == {GalleryUrl(j) : j \in 1..3} \cup {FileUrl(1, 1)}

FeatureNext ==
  \/ \E url \in PreviewUrls, cb \in BOOLEAN : onSetAsPreview(url, cb)
  \/ \E call \in featureCalls, ok \in BOOLEAN : FeatureSettles(call, ok)

SpecFeature == OrderInit /\ [][FeatureNext]_vars

(* ------------------------- caption and order updates -------------------- *)
MaxCaptionCalls == 2

\* captions typed into a saved image's caption field
SomeCaptions == {"c1"}

\* lines 680-683
captionUpdatedToast ==
  [title |-> "Caption updated", variant |-> "", nums |-> <<>>]

\* lines 210-212
hasUnsavedChanges ==
  Len(pendingImages) > 0 \/ Cardinality(modifiedCaptions) > 0
    \/ Cardinality(modifiedOrders) > 0

\* lines 216-218
getUnsavedChangesCount ==
  Len(pendingImages) + Cardinality(modifiedCaptions)
    + Cardinality(modifiedOrders)

\* what the caption handler's steps leave alone
captionFrame ==
  /\ AfterRender(FALSE, FALSE, localStorage, {})
  /\ UNCHANGED otherComponents
  /\ commits' = {}
  /\ row' = "none"
  /\ UNCHANGED <<orderCalls, modifiedOrders, move, featureStars, featureCalls>>
  /\ UNCHANGED <<mounted, inst, isNewProject, projectGallery,
                 pendingImages, uploadSessions, committed, uploads, save,
                 isUploading, showMaxImagesWarning, nUploads, nSaves,
                 nDeletes, orderEdited>>

\* lines 661-671, handleUpdateImageCaption up to its await: the id enters the
\* modified set and the update is requested
handleUpdateImageCaption(id, caption) ==
  /\ mounted
  /\ nEdits < MaxCaptionCalls
  /\ nEdits' = nEdits + 1
  /\ \E i \in 1..Len(projectGallery) : projectGallery[i].id = id
  /\ captionCalls' = captionCalls \cup
       {[id |-> id, caption |-> caption, inst |-> inst, k |-> nEdits + 1]}
  /\ modifiedCaptions' = modifiedCaptions \cup {id}
  /\ toast' = NoToast
  /\ ev' = [MkEv("captionEdit") EXCEPT !.index = id]
  /\ captionFrame
  /\ UNCHANGED <<server, updateFailures>>

\* lines 671-691: updateProjectGalleryImage settles
CaptionUpdateSettles(call, ok) ==
  /\ call \in captionCalls
  /\ captionCalls' = captionCalls \ {call}
  /\ server' = IF ok
               THEN [j \in 1..Len(server) |->
                       IF server[j].id = call.id
                       THEN [server[j] EXCEPT !.caption = call.caption]
                       ELSE server[j]]
               ELSE server
  /\ modifiedCaptions' = IF mounted /\ call.inst = inst
                         THEN modifiedAfterSettle(modifiedCaptions, call.id, ok)
                         ELSE modifiedCaptions
  /\ updateFailures' = IF ~ok /\ mounted /\ call.inst = inst
                       THEN updateFailures \cup
                              {[kind |-> "caption", id |-> call.id]}
                       ELSE updateFailures
  /\ toast' = IF ok THEN captionUpdatedToast ELSE updateFailedToast
  /\ ev' = [MkEv("captionUpdate") EXCEPT !.ok = ok, !.index = call.id]
  /\ captionFrame
  /\ UNCHANGED nEdits

\* a project whose three saved images are shown, nothing is pending
SavedEditInit ==
  MountedWith([j \in 1..3 |-> [id |-> j, imageUrl |-> GalleryUrl(j),
                               caption |-> "g",
                               displayOrder |-> <<2 * j>>]],
              <<>>, <<>>, {})

\* the saved image whose caption the user edits
EditedIds == {1}

\* the saved image the user moves
MovedIds == {2}

SavedEditNext ==
  \/ \E id \in EditedIds, caption \in SomeCaptions :
       handleUpdateImageCaption(id, caption)
  \/ \E call \in captionCalls, ok \in BOOLEAN : CaptionUpdateSettles(call, ok)
  \/ \E id \in MovedIds : moveImageOrderUp(id)
  \/ \E id \in MovedIds : moveImageOrderDown(id)
  \/ \E req \in orderCalls, ok \in BOOLEAN : OrderUpdateSettles(req, ok)

SpecSavedEdits == SavedEditInit /\ [][SavedEditNext]_vars

(* ------------------------- the blog gallery manager --------------------- *)
\* BlogGalleryManager.tsx keeps its own state; the project gallery manager's
\* state is left alone by its steps.
galleryManagerVars ==
  <<mounted, inst, isNewProject, server, projectGallery, pendingImages,
    localStorage, uploadSessions, committed, uploads, save, isUploading,
    showMaxImagesWarning, effClosure, cleanups, commits, toast, ev,
    nUploads, nSaves, nEdits, nDeletes, orderEdited, orderCalls,
    modifiedOrders, move, featureStars, featureCalls, modifiedCaptions,
    captionCalls, updateFailures, row>>

\* the pages of the other components start with an idle project gallery
\* manager of an empty project
OtherInit == MountedWith(InitGallery(0), <<>>, <<>>, {})

MaxBlogUploads == 2

\* line 212: the upload control of the dialog takes one file
maxFiles == 1

\* the galleries a blog post starts with
BlogGalleries == {<<>>, <<GalleryUrl(1)>>}

\* what a render's functions see (lines 29-35 and useBlog's galleryImages)
blogClosure(b) ==
  [uploadSession |-> b.uploadSession, isCommitted |-> b.isCommitted,
   uploadedFiles |-> b.uploadedFiles, galleryImages |-> b.galleryImages]

\* lines 67-102, cleanupUncommittedFiles as far as its request: the cleanup
\* requests a render's function issues
cleanupUncommittedFiles(cl) ==
  IF cl.uploadSession # "" /\ ~cl.isCommitted /\ Len(cl.uploadedFiles) > 0
  THEN {[sessionId |-> cl.uploadSession,
         preserve |-> {u \in Range(cl.galleryImages) : u # BlankUrl}]}
  ELSE {}

\* lines 59-65: the effect that runs after a render in which the dialog is
\* closed
dialogClosedEffect(b) ==
  IF ~b.isAddDialogOpen /\ b.uploadSession # "" /\ ~b.isCommitted
     /\ Len(b.uploadedFiles) > 0
  THEN cleanupUncommittedFiles(blogClosure(b))
  ELSE {}

\* lines 50-65: the render after a state change; b0 is the state before, b1
\* the state after, upl tells that uploadedFiles was set to a new array.  The
\* previous render's cleanup function runs when a dependency of the unmount
\* effect changed, then the dialog effect runs.
blogRender(b0, b1, upl, extra, lastRec) ==
  LET dep1 == upl \/ b0.uploadSession # b1.uploadSession
                  \/ b0.isCommitted # b1.isCommitted
      dep2 == dep1 \/ b0.isAddDialogOpen # b1.isAddDialogOpen
      old  == IF dep1 THEN cleanupUncommittedFiles(b0.effClosure) ELSE {}
      new  == IF dep2 THEN dialogClosedEffect(b1) ELSE {}
  IN  [b1 EXCEPT !.effClosure = IF dep1 THEN blogClosure(b1) ELSE @,
                 !.cleanups = old \cup new \cup extra,
                 !.last = lastRec]

\* the component is mounted for a blog post with gallery g
BlogMount(g) ==
  /\ ~blog.mounted
  /\ blog.n = 0
  /\ LET b == [NoBlog EXCEPT !.mounted = TRUE, !.galleryImages = g,
                             !.server = g]
     IN  blog' = [b EXCEPT !.effClosure = blogClosure(b),
                           !.last = [name |-> "mount"]]
  /\ UNCHANGED galleryManagerVars
  /\ UNCHANGED team

\* lines 183-186 and 237: the dialog is opened or dismissed
onOpenChange(open) ==
  /\ blog.mounted
  /\ blog.isAddDialogOpen # open
  /\ blog' = blogRender(blog, [blog EXCEPT !.isAddDialogOpen = open,
                                           !.commits = {}],
                        FALSE, {}, [name |-> "openChange", open |-> open])
  /\ UNCHANGED galleryManagerVars
  /\ UNCHANGED team

\* lines 104-146, handleFileUploadComplete up to its first await: the
\* session id is stored when one is passed, the batch is marked uncommitted
\* and remembered, and the first addGalleryImage is awaited
handleFileUploadComplete(fileUrl, sessionId) ==
  LET session == IF sessionId # "" THEN sessionId ELSE blog.uploadSession
      run == [n |-> blog.n + 1, urls |-> fileUrl, idx |-> 1, pc |-> "add",
              currentSessionId |-> session, cl |-> blogClosure(blog),
              added |-> <<>>]
      b1 == [blog EXCEPT !.uploadSession = IF sessionId # "" THEN sessionId
                                           ELSE @,
                         !.isCommitted = FALSE,
                         !.uploadedFiles = fileUrl,
                         !.runs = @ \cup {run},
                         !.commits = {},
                         !.n = @ + 1]
  IN  blog' = blogRender(blog, b1, TRUE, {},
                         [name |-> "uploadComplete", urls |-> fileUrl])

\* lines 204-210: the upload control hands over its files; the handler is
\* called with their urls and without a session id
onUploadComplete(k) ==
  /\ blog.mounted
  /\ blog.isAddDialogOpen
  /\ blog.n < MaxBlogUploads
  /\ k = blog.n + 1
  /\ handleFileUploadComplete([i \in 1..maxFiles |-> FileUrl(k, i)], "")
  /\ UNCHANGED galleryManagerVars
  /\ UNCHANGED team

\* what a step of a running handler does to the component's state: an
\* unmounted component ignores it
blogSet(b1) == IF blog.mounted THEN b1 ELSE [b1 EXCEPT
    !.isAddDialogOpen = blog.isAddDialogOpen,
    !.isCommitted = blog.isCommitted,
    !.uploadedFiles = blog.uploadedFiles]

\* lines 143-150 and 160-164: an awaited addGalleryImage settles.  After
\* the last one commitUploads is called with the handler's session id; a
\* rejection goes to the catch block, which calls the cleanupUncommittedFiles
\* of the handler's render.
AddGalleryImageSettles(r, ok) ==
  /\ r \in blog.runs
  /\ r.pc = "add"
  /\ LET url == r.urls[r.idx]
         added == Append(r.added, url)
         r1 == [r EXCEPT !.added = added, !.idx = @ + 1,
                         !.pc = IF r.idx = Len(r.urls) THEN "commit" ELSE "add"]
     IN  IF ok
         THEN blog' = [blog EXCEPT
                !.server = Append(@, url),
                !.runs = (@ \ {r}) \cup {r1},
                !.cleanups = {},
                !.commits = IF r1.pc = "commit"
                            THEN {[sessionId |-> r.currentSessionId,
                                   urls |-> r.urls]}
                            ELSE {},
                !.last = [name |-> "added", n |-> r.n, url |-> url]]
         ELSE blog' = [blog EXCEPT
                !.runs = @ \ {r},
                !.cleanups = cleanupUncommittedFiles(r.cl),
                !.commits = {},
                !.last = [name |-> "failed", n |-> r.n, at |-> "add",
                          added |-> r.added,
                          session |-> r.currentSessionId,
                          cleanups |-> cleanupUncommittedFiles(r.cl)]]
  /\ UNCHANGED galleryManagerVars
  /\ UNCHANGED team

\* lines 150-164: the awaited commitUploads settles.  On success
\* the batch is marked committed, the caption is cleared and the dialog is
\* closed; a rejection goes to the catch block.
BlogCommitSettles(r, ok) ==
  /\ r \in blog.runs
  /\ r.pc = "commit"
  /\ IF ok
     THEN LET b1 == blogSet([blog EXCEPT !.isCommitted = TRUE,
                                         !.isAddDialogOpen = FALSE,
                                         !.runs = @ \ {r},
                                         !.commits = {}])
          IN  blog' = blogRender(blog, b1, FALSE, {},
                                 [name |-> "committed", n |-> r.n,
                                  added |-> r.added])
     ELSE blog' = [blog EXCEPT
            !.runs = @ \ {r},
            !.cleanups = cleanupUncommittedFiles(r.cl),
            !.commits = {},
            !.last = [name |-> "failed", n |-> r.n, at |-> "commit",
                      added |-> r.added,
                      session |-> r.currentSessionId,
                      cleanups |-> cleanupUncommittedFiles(r.cl)]]
  /\ UNCHANGED galleryManagerVars
  /\ UNCHANGED team

\* useBlog refetches the gallery: the component renders with the stored
\* images, no dependency of its effects changes
BlogGalleryRefetch ==
  /\ blog.mounted
  /\ blog.galleryImages # blog.server
  /\ blog' = [blog EXCEPT !.galleryImages = blog.server, !.cleanups = {},
                          !.commits = {}, !.last = [name |-> "refetch"]]
  /\ UNCHANGED galleryManagerVars
  /\ UNCHANGED team

\* lines 50-56: the component unmounts, the cleanup function of the last
\* unmount effect runs
BlogUnmount ==
  /\ blog.mounted
  /\ blog' = [blog EXCEPT !.mounted = FALSE,
                          !.cleanups = cleanupUncommittedFiles(blog.effClosure),
                          !.commits = {},
                          !.last = [name |-> "unmount"]]
  /\ UNCHANGED galleryManagerVars
  /\ UNCHANGED team

BlogNext ==
  \/ \E g \in BlogGalleries : BlogMount(g)
  \/ \E open \in BOOLEAN : onOpenChange(open)
  \/ \E k \in 1..MaxBlogUploads : onUploadComplete(k)
  \/ \E r \in blog.runs, ok \in BOOLEAN : AddGalleryImageSettles(r, ok)
  \/ \E r \in blog.runs, ok \in BOOLEAN : BlogCommitSettles(r, ok)
  \/ BlogGalleryRefetch
  \/ BlogUnmount

SpecBlog == OtherInit /\ [][BlogNext]_vars

(* ------------------------------ team members --------------------------- *)
\* useTeamMembers.ts: the hook's wrappers and mutations.
MaxTeamCalls == 3

TeamIds == {1, 2}

\* lines 44-169: the five mutations with their method and path
TeamMutations ==
  {"createTeamMember", "updateTeamMember", "toggleActiveStatus",
   "updateOrder", "deleteTeamMember"}

\* lines 46-50, 72-76, 98-101, 123-127, 149-152: the request a mutation sends
mutationRequest(mutation, id) ==
  CASE mutation = "createTeamMember" ->
         [method |-> "POST", path |-> "/api/admin/team-members", id |-> 0]
    [] mutation = "updateTeamMember" ->
         [method |-> "PUT", path |-> "/api/admin/team-members/:id", id |-> id]
    [] mutation = "toggleActiveStatus" ->
         [method |-> "PUT", path |-> "/api/admin/team-members/:id/toggle-active",
          id |-> id]
    [] mutation = "updateOrder" ->
         [method |-> "PUT", path |-> "/api/admin/team-members/:id/order",
          id |-> id]
    [] OTHER ->
         [method |-> "DELETE", path |-> "/api/admin/team-members/:id",
          id |-> id]

\* lines 174-178: the notification of a refused call
permissionDeniedToast == [title |-> "Permission denied", variant |-> "destructive"]

\* lines 55-58 and 61-65: the notifications of a settled mutation
teamSuccessToast == [title |-> "Success", variant |-> "default"]
teamErrorToast == [title |-> "Error", variant |-> "destructive"]

\* a page starts using the hook; useAuth tells whether the user is an admin
UseTeamMembers(admin) ==
  /\ ~team.used
  /\ team' = [team EXCEPT !.used = TRUE, !.isAdmin = admin,
                          !.last = [name |-> "use"]]
  /\ UNCHANGED galleryManagerVars
  /\ UNCHANGED blog

\* line 10: useAuth reports another status (login, logout) and the hook
\* renders again
AuthChanges(admin) ==
  /\ team.used
  /\ team.isAdmin # admin
  /\ team' = [team EXCEPT !.isAdmin = admin, !.last = [name |-> "auth"]]
  /\ UNCHANGED galleryManagerVars
  /\ UNCHANGED blog

\* lines 173, 185, 197, 209, 221, were the check left out
refusedNever(isAdmin) == FALSE

\* lines 173, 185, 197, 209, 221: if (!isAdmin)
refused(isAdmin) == ~isAdmin

\* lines 172-230, the body shared by the five wrappers: a refused call raises
\* the notification and returns, any other call runs the mutation once
teamWrapper(mutation, id) ==
  /\ team.used
  /\ team.n < MaxTeamCalls
  /\ LET req == [n |-> team.n + 1, mutation |-> mutation,
                 request |-> mutationRequest(mutation, id)]
     IN  IF refused(team.isAdmin)
         THEN team' = [team EXCEPT
                !.toast = permissionDeniedToast,
                !.n = @ + 1,
                !.last = [name |-> mutation, n |-> team.n + 1,
                          isAdmin |-> team.isAdmin, issued |-> {}]]
         ELSE team' = [team EXCEPT
                !.requests = @ \cup {req},
                !.n = @ + 1,
                !.last = [name |-> mutation, n |-> team.n + 1,
                          isAdmin |-> team.isAdmin, issued |-> {req}]]
  /\ UNCHANGED galleryManagerVars
  /\ UNCHANGED blog

\* lines 172-182
createTeamMember == teamWrapper("createTeamMember", 0)

\* lines 184-194
updateTeamMember(id) == teamWrapper("updateTeamMember", id)

\* lines 196-206
toggleActiveStatus(id) == teamWrapper("toggleActiveStatus", id)

\* lines 208-218
updateOrder(id) == teamWrapper("updateOrder", id)

\* lines 220-230
deleteTeamMember(id) == teamWrapper("deleteTeamMember", id)

\* lines 52-66 and the like: a mutation's request settles, onSuccess or
\* onError raises its notification
TeamMutationSettles(req, ok) ==
  /\ req \in team.requests
  /\ team' = [team EXCEPT
       !.requests = @ \ {req},
       !.toast = IF ok THEN teamSuccessToast ELSE teamErrorToast,
       !.last = [name |-> "settled", ok |-> ok]]
  /\ UNCHANGED galleryManagerVars
  /\ UNCHANGED blog

TeamNext ==
  \/ \E admin \in BOOLEAN : UseTeamMembers(admin)
  \/ \E admin \in BOOLEAN : AuthChanges(admin)
  \/ createTeamMember
  \/ \E id \in TeamIds : updateTeamMember(id)
  \/ \E id \in TeamIds : toggleActiveStatus(id)
  \/ \E id \in TeamIds : updateOrder(id)
  \/ \E id \in TeamIds : deleteTeamMember(id)
  \/ \E req \in team.requests, ok \in BOOLEAN : TeamMutationSettles(req, ok)

SpecTeam == OtherInit /\ [][TeamNext]_vars

(* ------------------------------ properties ----------------------------- *)
\* urls stored in the owner's persisted gallery entries
PersistedUrls == {server[i].imageUrl : i \in 1..Len(server)}

\* the largest displayOrder among the persisted and the pending entries
MaxDisplayOrder ==
  LET orders ==
        {server[i].displayOrder[1] :
           i \in {j \in 1..Len(server) : server[j].displayOrder # <<>>}}
          \cup {pendingImages[i].displayOrder : i \in 1..Len(pendingImages)}
  IN IF orders = {} THEN 0 ELSE CHOOSE m \in orders : \A o \in orders : o <= m

\* entries the step has appended to the pending list
Admitted == Len(pendingImages') - Len(pendingImages)

\* C1: no cleanup request (a session's cleanup from the unmount-cleanup
\* effect, or the single-file cleanup of a pending deletion) leaves a url of a
\* persisted gallery entry deletable: every persisted url is in the preserve
\* set of the request and is not the file the request discards; stated for
\* the requests issued while no save call is under way.
C1_CleanupSparesPersisted ==
  (\A s \in Slots : save[s].pc = "idle") =>
    \A c \in cleanups :
      \A u \in PersistedUrls : u \in c.preserve /\ u # c.fileUrl

\* C2: while only uploads have been handled (no save has copied pending
\* entries into the gallery), persisted plus pending entries number at most
\* MAX_GALLERY_IMAGES, whatever the interleaving of upload completions.
C2_WithinQuota ==
  nSaves = 0 => Len(server) + Len(pendingImages) <= MAX_GALLERY_IMAGES

\* C3: handleFileUpload(urls) with c persisted plus pending entries and n urls
\* appends exactly min(n, max(0, 10 - c)) entries, for the first that many
\* urls in order, and leaves the entries already pending as they were.
C3_AddAdmitsUpToQuota ==
  [][ev'.name = "add" =>
       LET c == Len(server) + Len(pendingImages)
           k == Min2(Len(ev'.urls), Max2(0, MAX_GALLERY_IMAGES - c))
       IN /\ Len(pendingImages') = Len(pendingImages) + k
          /\ SubSeq(pendingImages', 1, Len(pendingImages)) = pendingImages
          /\ \A i \in 1..k :
               pendingImages'[Len(pendingImages) + i].url = ev'.urls[i]]_vars

\* the step is handleFileUpload(urls) on a batch that does not fit the quota
AddOverQuota ==
  /\ ev'.name = "add"
  /\ Len(projectGallery) + Len(pendingImages) + Len(ev'.urls)
       > MAX_GALLERY_IMAGES

C5_OrderAfterAllExisting ==
  [][(ev'.name = "add" /\ ev'.fresh /\ projectGallery = server) =>
       \A i \in 1..Admitted :
         pendingImages'[Len(pendingImages) + i].displayOrder
           = MaxDisplayOrder + i]_vars

\* C6: with no manual order edits so far, the displayOrders handleFileUpload
\* assigns increase strictly: each exceeds that of every entry already
\* pending or persisted, and they increase along the batch; stated for the
\* calls whose render values are the current ones and whose gallery cache is
\* the persisted gallery.
C6_OrdersStrictlyIncrease ==
  [][(ev'.name = "add" /\ ev'.fresh /\ projectGallery = server
        /\ ~orderEdited) =>
       \A i \in (Len(pendingImages) + 1)..Len(pendingImages') :
         /\ \A j \in 1..(i - 1) :
              pendingImages'[j].displayOrder < pendingImages'[i].displayOrder
         /\ \A j \in 1..Len(server) :
              server[j].displayOrder # <<>> =>
                server[j].displayOrder[1] < pendingImages'[i].displayOrder]_vars

\* C7: mounting while the mirror holds a serialized list of pending entries
\* (the in-memory list being empty) leaves the in-memory list equal to that
\* list, entry by entry, and the mirror as it was.
C7_MountRehydrates ==
  [][(ev'.name = "mount" /\ hasItem(localStorage, StorageKey)
        /\ IsJSON(localStorage[StorageKey])
        /\ Len(JSONparse(localStorage[StorageKey])) > 0) =>
       /\ pendingImages' = JSONparse(localStorage[StorageKey])
       /\ localStorage' = localStorage]_vars

\* the mirror ls is the serialization of list, its key absent for no entries
MirrorHolds(ls, list) ==
  IF Len(list) > 0
  THEN hasItem(ls, StorageKey) /\ ls[StorageKey] = JSONstringify(list)
  ELSE ~hasItem(ls, StorageKey)

\* C8: every step of a mounted component that changes the pending list (add,
\* delete, caption or order update, drag reorder, the clear that ends a save)
\* leaves the mirror holding the serialization of the whole new list, and
\* no key when the new list is empty.
C8_MirrorFollowsPending ==
  [][(mounted /\ mounted' /\ pendingImages' # pendingImages) =>
       MirrorHolds(localStorage', pendingImages')]_vars

\* a caption edit has been mirrored
C8_EditMirrored ==
  /\ ev.name = "updateCaption"
  /\ Len(pendingImages) > 0
  /\ pendingImages[ev.index].caption = "edited"
  /\ MirrorHolds(localStorage, pendingImages)

\* the list the mirror holds: none when the key is absent or unreadable
MirrorList(ls) ==
  IF hasItem(ls, StorageKey) /\ IsJSON(ls[StorageKey])
  THEN JSONparse(ls[StorageKey]) ELSE <<>>

\* the merge of the in-memory list M and the mirror list L, as specified
MergeRule(M, L) ==
  IF Len(M) = 0 /\ Len(L) > 0 THEN L
  ELSE IF Len(M) > 0 /\ Len(L) > 0
  THEN M \o SelectSeq(L, LAMBDA e : \A i \in 1..Len(M) : M[i].url # e.url)
  ELSE M

\* C9: saveGalleryImages works on L when the in-memory list M is empty and
\* the mirror list L is not, on M followed by the entries of L whose url no
\* entry of M has when both are non-empty, and on M otherwise (a call with
\* nothing to work on returns at once); an url in both keeps M's entry.
C9_MergeRule ==
  [][\A slot \in Slots :
       (ev'.name = "saveStart" /\ ev'.slot = slot) =>
         LET W == MergeRule(pendingImages, MirrorList(localStorage))
         IN IF Len(W) = 0 THEN ev'.outcome = "noop"
            ELSE save'[slot].loaded = W]_vars

\* a call merged one in-memory entry with a mirror of two entries, one of
\* them for the same url under another caption, and kept the in-memory one
C9_UnionKeepsMemoryEntry ==
  \E slot \in Slots :
    LET s == save[slot]
        L == MirrorList(localStorage)
    IN /\ s.pc = "fetch"
       /\ Len(s.M) = 1
       /\ Len(L) = 2
       /\ Len(s.loaded) = 2
       /\ s.loaded[1] = s.M[1]
       /\ \E i \in 1..2 : L[i].url = s.M[1].url /\ L[i].caption # s.M[1].caption

\* C10 as stated: a saveGalleryImages call for an existing project that
\* starts right after another one returned (no other handler in between)
\* never issues a POST /gallery request.
C10_SecondSavePersistsNothing ==
  \A slot \in Slots :
    save[slot].pc = "persist" => save[slot].inRow \notin {"ran", "failed"}

\* C10: a saveGalleryImages call for an existing project that starts right
\* after another one returned (no other handler in between) never issues a
\* POST /gallery request, provided the GET and every POST of the first call
\* were answered.
C10_NoPersistAfterAnsweredSave ==
  \A slot \in Slots : save[slot].pc = "persist" => save[slot].inRow # "ran"

\* the second call in a row, made with entries still pending after the first
\* call's commit was refused, has fetched the gallery and found nothing to
\* persist
C10_SecondSaveSkipsAll ==
  /\ ev.name = "saveFetch"
  /\ ev.ok
  /\ ev.inRow = "ran"
  /\ ev.outcome = "commit"
  /\ Len(pendingImages) > 0
  /\ \A i \in 1..Len(pendingImages) : pendingImages[i].url \in PersistedUrls

\* the step ended the persist loop of a call with every POST answered
PersistLoopDone ==
  /\ ev.name \in {"saveFetch", "savePersist"}
  /\ ev.ok
  /\ ev.outcome \in {"commit", "done"}

\* the entries of list whose url, up to the first "?", is that of no url in
\* existing
NewByPath(list, existing) ==
  SelectSeq(list, LAMBDA e :
    \A i \in 1..Len(existing) : BeforeQuery(existing[i]) # BeforeQuery(e.url))

\* the same, urls trimmed too, and the entries without a url left out
NewByPathWithUrl(list, existing) ==
  SelectSeq(list, LAMBDA e :
    /\ e.url # BlankUrl
    /\ \A i \in 1..Len(existing) :
         NormalizeUrl(existing[i]) # NormalizeUrl(e.url))

\* C11 as stated: the entries a save for an existing project has persisted,
\* once its persist loop is through, are exactly the merged pending entries
\* whose url up to the first "?" differs from that of every entry of the
\* gallery the save fetched.
C11_PersistsAllNewByPath ==
  PersistLoopDone =>
    ev.call.posted = NewByPath(ev.call.loaded, ev.call.existing)

\* C11: the entries a save for an existing project has persisted, once its
\* persist loop is through, are exactly the merged pending entries that have
\* a url and whose normalized url (up to the first "?", trimmed) differs from
\* that of every entry of the gallery the save fetched; an entry differing
\* from a fetched one in its query string only is not persisted.
C11_PersistsNewWithUrl ==
  PersistLoopDone =>
    ev.call.posted = NewByPathWithUrl(ev.call.loaded, ev.call.existing)

\* a save worked on a new file and on a stored path with a query string,
\* and persisted the first only
C11_QueryVariantSkipped ==
  /\ PersistLoopDone
  /\ Len(ev.call.loaded) = 2
  /\ Len(ev.call.posted) = 1
  /\ \E i \in 1..2 :
       /\ ev.call.loaded[i].url = WithQuery(server[1].imageUrl)
       /\ ev.call.loaded[i] # ev.call.posted[1]

\* list a is the beginning of list b
IsPrefix(a, b) == Len(a) <= Len(b) /\ SubSeq(b, 1, Len(a)) = a

\* the entries the call c has sent a POST for: those answered and the one
\* it waits for, or the one refused
Attempted(c) ==
  c.posted \o (IF c.pc \in {"persist", "error"} /\ c.idx \in 1..Len(c.newPending)
               THEN <<c.newPending[c.idx]>> ELSE <<>>)

\* a POST of the call was refused in the step
PersistRefused == ev.name = "savePersist" /\ ~ev.ok

\* C12 as stated: a save sends its POSTs one at a time, for the new entries
\* (by path) in pending-list order with none left out; a refused POST ends
\* the call with the error rethrown and no further POST.
C12_AttemptsEveryNewEntry ==
  /\ \A slot \in Slots :
       save[slot].pc = "persist" =>
         IsPrefix(Attempted(save[slot]),
                  NewByPath(save[slot].loaded, save[slot].existing))
  /\ PersistRefused =>
       /\ ev.outcome = "error"
       /\ save[ev.slot].pc = "idle"
       /\ IsPrefix(Attempted(ev.call),
                   NewByPath(ev.call.loaded, ev.call.existing))

\* C12: a save sends its POSTs one at a time, for the new entries that have
\* a url, in pending-list order with none of them left out; a refused POST
\* ends the call with the error rethrown and no further POST.
C12_AttemptsInOrder ==
  /\ \A slot \in Slots :
       save[slot].pc = "persist" =>
         IsPrefix(Attempted(save[slot]),
                  NewByPathWithUrl(save[slot].loaded, save[slot].existing))
  /\ PersistRefused =>
       /\ ev.outcome = "error"
       /\ save[ev.slot].pc = "idle"
       /\ IsPrefix(Attempted(ev.call),
                   NewByPathWithUrl(ev.call.loaded, ev.call.existing))

\* the second of two POSTs was refused: one entry persisted, the call over
C12_SecondPostRefused ==
  /\ PersistRefused
  /\ ev.outcome = "error"
  /\ Len(ev.call.posted) = 1
  /\ Len(Attempted(ev.call)) = 2
  /\ Len(ev.call.loaded) = 2

\* the step is one of a saveGalleryImages call
SaveStep ==
  ev'.name \in {"saveStart", "saveFetch", "savePersist", "saveCommit"}

\* C13: a save changes the pending list and the mirror only in the step that
\* ends it after every POST (and commit) was answered; the step in which a
\* POST is refused, like every step of the call before it, leaves both as
\* they were, so the entries are all there for a retry.
C13_ClearedOnlyOnSuccess ==
  [][SaveStep =>
       /\ (pendingImages' # pendingImages \/ localStorage' # localStorage) =>
            /\ ev'.outcome = "done"
            /\ ev'.call.posted
                 = NewByPathWithUrl(ev'.call.loaded, ev'.call.existing)
       /\ (ev'.name = "savePersist" /\ ~ev'.ok) =>
            /\ pendingImages' = pendingImages
            /\ localStorage' = localStorage]_vars

\* the second POST of a save was refused: both entries are still pending
\* and mirrored
C13_PendingKeptAfterRefusal ==
  /\ PersistRefused
  /\ mounted
  /\ Len(ev.call.posted) = 1
  /\ pendingImages = ev.call.loaded
  /\ Len(pendingImages) = 2
  /\ MirrorHolds(localStorage, pendingImages)

UrlsOf(list) == {list[i].url : i \in 1..Len(list)}

\* a save step has just asked commitUploads for a session of an existing
\* project
CommitAsked ==
  /\ ev.name \in {"saveFetch", "savePersist", "saveCommit"}
  /\ ev.outcome = "commit"

\* C15: after the persist step of a save for an existing project, commit is
\* called once for every tracked session, and each call's urls contain
\* every url of the pending list the save worked on (entries taken from the
\* mirror included) and every url of the gallery it fetched and persisted.
C15_CommitCoversWorkedOn ==
  /\ CommitAsked =>
       \A c \in commits :
         /\ UrlsOf(ev.call.loaded) \subseteq c.urls
         /\ Range(ev.call.existing) \subseteq c.urls
         /\ UrlsOf(ev.call.posted) \subseteq c.urls
  /\ (ev.name = "saveCommit" /\ ev.outcome = "done") =>
       ev.call.called = ev.call.sessions

C17_PersistedUrlNotCleaned ==
  [][(/\ ev'.name = "delete"
      /\ \A s \in Slots : save[s].pc = "idle"
      /\ pendingImages[ev'.index].url \in PersistedUrls) =>
       /\ \A c \in cleanups' : c.kind # "file"
       /\ pendingImages' = splice(pendingImages, ev'.index)]_vars

\* C18: every cleanup request just issued (a session's cleanup from the
\* function the unmount effect returns, whatever made it run, or the
\* single-file cleanup of a pending deletion) carries a preserve set that
\* contains every url pending at that moment, except the url a pending
\* deletion discards (entries without a url aside); so a session's cleanup
\* is never sent an empty preserve set while an image is pending.
C18_PreserveHoldsPending ==
  \A c \in cleanups :
    /\ \A i \in 1..Len(pendingImages) :
         \/ pendingImages[i].url = BlankUrl
         \/ pendingImages[i].url \in c.preserve
         \/ (c.kind = "file" /\ pendingImages[i].url = c.fileUrl)
    /\ (c.kind = "session" /\ UrlsOf(pendingImages) \ {BlankUrl} # {})
         => c.preserve # {}

\* the displayOrder of the entry id of gallery
OrderOf(gallery, id) ==
  (CHOOSE e \in Range(gallery) : e.id = id).displayOrder

\* entries of gallery with a displayOrder strictly on the kind's side of cur
Neighbours(gallery, kind, cur) ==
  {e \in Range(gallery) :
     /\ e.displayOrder # <<>>
     /\ IF kind = "moveUp" THEN e.displayOrder[1] < cur
        ELSE e.displayOrder[1] > cur}

\* C19: moveImageOrderUp(id, currentOrder) picks, among the entries with a
\* non-null displayOrder strictly lower than currentOrder, one with the
\* greatest displayOrder (moveImageOrderDown: strictly higher, the smallest)
\* and asks for two updates, the entry to the neighbour's displayOrder and
\* the neighbour to currentOrder; once both are answered, the two entries
\* of the gallery the move started from have exchanged displayOrder and the
\* other entries are as they were (the move acting alone on an up-to-date
\* gallery); with a null currentOrder or no such neighbour no update is
\* asked for.
C19_MoveSwapsWithNeighbour ==
  move.kind \in {"moveUp", "moveDown"} =>
    LET cur == move.currentOrder
        near == IF cur = <<>> THEN {}
                ELSE Neighbours(move.shown, move.kind, cur[1])
    IN /\ near = {} => (move.target = 0 /\ move.issued = {})
       /\ near # {} =>
            /\ \E t \in near :
                 /\ t.id = move.target
                 /\ \A e \in near :
                      IF move.kind = "moveUp"
                      THEN e.displayOrder[1] <= t.displayOrder[1]
                      ELSE e.displayOrder[1] >= t.displayOrder[1]
                 /\ {[id |-> c.id, displayOrder |-> c.displayOrder] :
                       c \in move.issued}
                      = {[id |-> move.id, displayOrder |-> t.displayOrder[1]],
                         [id |-> t.id, displayOrder |-> cur[1]]}
            /\ (move.fresh /\ move.alone /\ move.answered = 2) =>
                 /\ Len(server) = Len(move.before)
                 /\ \A j \in 1..Len(server) :
                      server[j] =
                        IF move.before[j].id = move.id
                        THEN [move.before[j] EXCEPT !.displayOrder =
                                OrderOf(move.before, move.target)]
                        ELSE IF move.before[j].id = move.target
                        THEN [move.before[j] EXCEPT !.displayOrder =
                                OrderOf(move.before, move.id)]
                        ELSE move.before[j]

\* A (displayOrder 2) and B (displayOrder 5): moveImageOrderUp(B) has had
\* both updates answered, and A has 5, B has 2
C19_MovedUpPastNeighbour ==
  /\ move.kind = "moveUp"
  /\ move.id = 2
  /\ move.target = 1
  /\ move.before[1].displayOrder = <<2>>
  /\ move.before[2].displayOrder = <<5>>
  /\ move.answered = 2
  /\ server[1].displayOrder = <<5>>
  /\ server[2].displayOrder = <<2>>
  /\ server[3] = move.before[3]

\* ids of the entries a reordering has asked an update for
AskedIds == {c.id : c \in move.issued}

\* C20 as stated: onReorderSavedItems(items) asks for an order update for
\* each item whose displayOrder differs from the one it was shown with, and
\* for no item whose displayOrder is the same.
C20_UpdatesOnlyChangedItems ==
  move.kind = "reorder" =>
    \A j \in 1..Len(move.items) :
      (move.items[j].id \in AskedIds)
        <=> (move.items[j].displayOrder
               # OrderOf(move.shown, move.items[j].id))

\* C20: onReorderSavedItems(items) asks for one order update for each item
\* that has an id and a non-null displayOrder, with that displayOrder,
\* whether or not it differs from the one the entry had, and for no other.
C20_UpdatesEveryOrderedItem ==
  move.kind = "reorder" =>
    {[id |-> c.id, displayOrder |-> c.displayOrder] : c \in move.issued}
      = {[id |-> move.items[j].id,
          displayOrder |-> move.items[j].displayOrder[1]] :
           j \in {k \in 1..Len(move.items) :
                    move.items[k].displayOrder # <<>>}}

\* a drag has renumbered the items; the second keeps its displayOrder 2,
\* the first gets a new one, and an update was asked for both
C20_UnchangedItemUpdated ==
  /\ move.kind = "reorder"
  /\ Len(move.items) = 3
  /\ move.items[2].displayOrder = <<2>>
  /\ move.items[2].displayOrder = OrderOf(move.shown, move.items[2].id)
  /\ move.items[2].id \in AskedIds
  /\ move.items[1].displayOrder # OrderOf(move.shown, move.items[1].id)
  /\ move.items[1].id \in AskedIds

\* C21: when the setProjectFeatureImage call of a setFeature is refused,
\* the stars are shown again as they were before that setFeature (the call
\* being the only one under way): the requested entry's star is no longer
\* gold unless it was before.
C21_FailedFeatureRolledBack ==
  [][(ev'.name = "featureSettles" /\ ~ev'.ok) =>
       \A c \in featureCalls \ featureCalls' :
         (c.alone /\ featureCalls = {c} /\ featureStars = {c.id}) =>
           featureStars' = c.starsBefore]_vars

\* C22: a cleanup request that settles, whatever its outcome (done, false
\* result or a response that is not ok, rejected promise), raises no
\* notification and throws nothing, and changes neither the pending list
\* nor the mirror; the unmount and the pending deletion that sent it had
\* completed without a notification, the deletion having removed its entry.
C22_CleanupFailureSwallowed ==
  [][/\ ev'.name = "cleanupSettles" =>
          /\ toast' = NoToast
          /\ ev'.thrown = NoError
          /\ pendingImages' = pendingImages
          /\ localStorage' = localStorage
          /\ mounted' = mounted
     /\ ev'.name = "unmount" => (toast' = NoToast /\ ~mounted')
     /\ ev'.name = "delete" =>
          /\ toast' = NoToast
          /\ pendingImages' = splice(pendingImages, ev'.index)]_vars

\* the file cleanup of a pending deletion was rejected: nothing is shown
\* and the deleted entry is gone from the pending list
C22_RejectedAfterDeletion ==
  /\ ev.name = "cleanupSettles"
  /\ ev.outcome = "rejected"
  /\ ev.slot = "file"
  /\ nDeletes = 1
  /\ mounted
  /\ toast = NoToast
  /\ Len(pendingImages) = 1

\* C23: when the mirror value read at the start of saveGalleryImages is not
\* parseable JSON, the error is caught, the mirror key is deleted, and the
\* save goes on with the state's list alone, without throwing.
C23_CorruptMirrorDeleted ==
  [][(/\ ev'.name = "saveStart"
      /\ hasItem(localStorage, StorageKey)
      /\ ~IsJSON(localStorage[StorageKey])) =>
       /\ ~hasItem(localStorage', StorageKey)
       /\ ev'.call.loaded = ev'.call.M
       /\ ev'.thrown = NoError]_vars

\* the upload sessions a url was uploaded in
SessionsOf(url) ==
  {k \in 1..MaxUploads : \E i \in 1..MaxBatch : url = FileUrl(k, i)}

\* C24 as stated: every pending url of an upload batch belongs to a session
\* whose commit call succeeded.
C24_PendingAfterCommitSucceeded ==
  \A i \in 1..Len(pendingImages) :
    SessionsOf(pendingImages[i].url) \subseteq committed

\* C24: a url of an upload batch is pending only once the commit call of
\* the batch's session has settled; when it settles in a mounted component,
\* answered or refused, handleFileUpload runs and appends what the quota
\* admits of the batch.
C24_PendingAfterCommitSettled ==
  [][/\ \A i \in 1..Len(pendingImages') :
          \A k \in SessionsOf(pendingImages'[i].url) :
            \A u \in uploads' : u.sid # k
     /\ \A u \in uploads \ uploads' :
          (mounted /\ u.inst = inst) =>
            /\ ev'.name = "add"
            /\ toast' = handleFileUpload(u.cl, u.urls).toast
            /\ handleFileUpload(u.cl, u.urls).sets =>
                 pendingImages' =
                   pendingImages \o handleFileUpload(u.cl, u.urls).added]_vars

\* the commit of session 1 was refused and its file is pending all the same
C24_PendingAfterRefusedCommit ==
  /\ ev.name = "add"
  /\ ~ev.ok
  /\ 1 \notin committed
  /\ \E i \in 1..Len(pendingImages) : pendingImages[i].url = FileUrl(1, 1)

\* C25: a session's cleanup request is issued only by the step that unmounts
\* the component, and only for a session that has not been committed; no
\* step of a component that stays mounted (a change of the pending list, of
\* the gallery data or of the tracked sessions) issues one.
C25_CleanupOnlyOnUnmount ==
  [][\A c \in cleanups' :
       c.kind = "session" =>
         /\ ev'.name = "unmount"
         /\ c.sessionId \notin committed']_vars

\* C29: when a batch of the blog gallery manager fails, at an addGalleryImage
\* call or at the commit, the failing step issues a cleanup for the batch's
\* session whose preserve set holds every url of the batch that was already
\* added; and a commit is requested only when every url of its batch has been
\* added.
C29_FailedBatchCleanedUp ==
  /\ blog.last.name = "failed" =>
       \E c \in blog.last.cleanups :
         /\ c.sessionId = blog.last.session
         /\ Range(blog.last.added) \subseteq c.preserve
  /\ \A c \in blog.commits : Range(c.urls) \subseteq Range(blog.server)

\* C30: a call of one of the five wrappers of useTeamMembers made while
\* isAdmin is false adds no request and leaves the permission-denied
\* notification; a call made while isAdmin is true adds exactly one request,
\* the one of the wrapper's own mutation.
C30_AdminGuard ==
  [][team'.last # team.last /\ team'.last.name \in TeamMutations =>
       IF ~team.isAdmin
       THEN /\ team'.requests = team.requests
            /\ team'.toast = permissionDeniedToast
       ELSE /\ Cardinality(team'.requests \ team.requests) = 1
            /\ team.requests \subseteq team'.requests
            /\ \A r \in team'.requests \ team.requests :
                 /\ r.mutation = team'.last.name
                 /\ r.request = mutationRequest(team'.last.name, r.request.id)
            /\ team'.toast = team.toast]_vars

\* a call was refused while an earlier call's request is still in flight
C30_RefusedWhileRequestInFlight ==
  /\ team.last.name = "deleteTeamMember"
  /\ ~team.isAdmin
  /\ team.toast = permissionDeniedToast
  /\ \E r \in team.requests : r.mutation = "updateOrder"

\* C28 as stated: whenever a caption or order update of a saved image settles,
\* saved or refused, its image id is outside the modified set; and with an
\* empty pending list and no update in flight hasUnsavedChanges is false and
\* getUnsavedChangesCount is 0.
C28_SettledUpdateLeavesSet ==
  /\ ev.name = "orderUpdate" /\ orderCalls = {} => modifiedOrders = {}
  /\ ev.name = "captionUpdate" /\ captionCalls = {} => modifiedCaptions = {}
  /\ pendingImages = <<>> /\ orderCalls = {} /\ captionCalls = {} =>
       ~hasUnsavedChanges /\ getUnsavedChangesCount = 0

\* C28, amended: an update that was saved takes its image id out of the
\* modified set, an update that was refused leaves the set as it was; with
\* an empty pending list, no update in flight and no refused update,
\* hasUnsavedChanges is false and getUnsavedChangesCount is 0.
C28_SavedUpdateLeavesSet ==
  [][/\ \A req \in orderCalls \ orderCalls' :
          IF ev'.ok THEN req.id \notin modifiedOrders'
          ELSE modifiedOrders' = modifiedOrders
     /\ \A call \in captionCalls \ captionCalls' :
          IF ev'.ok THEN call.id \notin modifiedCaptions'
          ELSE modifiedCaptions' = modifiedCaptions
     /\ (/\ pendingImages' = <<>> /\ orderCalls' = {} /\ captionCalls' = {}
         /\ updateFailures' = {})
          => ~hasUnsavedChanges' /\ getUnsavedChangesCount' = 0]_vars

\* a caption update and an order swap were saved, nothing is in flight and
\* nothing is reported unsaved
C28_AllUpdatesSaved ==
  /\ ev.name = "captionUpdate" /\ ev.ok
  /\ move.answered = 2
  /\ orderCalls = {} /\ captionCalls = {} /\ updateFailures = {}
  /\ \E j \in 1..Len(server) : server[j].caption = "c1"
  /\ ~hasUnsavedChanges

\* C26: however the saves of a project interleave, and after a retry of a
\* save that failed half way, no two entries of the persisted gallery have
\* equal normalized urls.
C26_NoDuplicatePersisted ==
  \A i, j \in 1..Len(server) :
    i # j => NormalizeUrl(server[i].imageUrl) # NormalizeUrl(server[j].imageUrl)

\* C27: when a save finishes, every pending entry whose url the save did not
\* load at its start, so one an upload completion added while the save was
\* suspended, is persisted or is still in the pending list and in the
\* mirror.
C27_EntryAddedDuringSaveKept ==
  [][(/\ ev'.name \in {"saveFetch", "savePersist", "saveCommit"}
      /\ ev'.outcome \notin Running
      /\ mounted /\ ev'.call.inst = inst) =>
       \A i \in 1..Len(pendingImages) :
         LET e == pendingImages[i]
         IN  (/\ e.url # BlankUrl
              /\ \A k \in 1..Len(ev'.call.loaded) :
                   ev'.call.loaded[k].url # e.url) =>
               \/ e.url \in {server'[j].imageUrl : j \in 1..Len(server')}
               \/ /\ \E j \in 1..Len(pendingImages') : pendingImages'[j] = e
                  /\ \E j \in 1..Len(MirrorList(localStorage')) :
                       MirrorList(localStorage')[j] = e]_vars

====
